---- MODULE Spec2Model ----
(***************************************************************************)
(* The asynchronous job pipeline of styleforge: the job record store       *)
(* (JobService over one JSON file per job), the dispatch queue, the        *)
(* worker pass process_image and the three image generators as far as      *)
(* they report progress and fail.                                          *)
(*                                                                         *)
(* Python values are modelled as follows.                                  *)
(*   Optional[T]   the empty set (None) or a singleton {v}                 *)
(*   str           a sequence of tokens (f-strings concatenate tokens)     *)
(*   datetime      a natural number, read from the clock `now`             *)
(***************************************************************************)
EXTENDS Integers, Sequences, FiniteSets, TLC

\* Bounds of the model.
NumWorkers == 2
MaxTime == 1
MaxRedeliveries == 1

\* The job identifiers uuid4 can produce, in the order it produces them
JobIds == {1}
Workers == 1..NumWorkers

None == {}
Some(v) == {v}
The(o) == CHOOSE v \in o : TRUE

Min(a, b) == IF a < b THEN a ELSE b
Max(a, b) == IF a > b THEN a ELSE b

\* ------------------------------------------------------------------ models.py

PENDING == "pending"
PROCESSING == "processing"
COMPLETED == "completed"
FAILED == "failed"
JobStatus == {PENDING, PROCESSING, COMPLETED, FAILED}

\* ------------------------------------------------------- style_registry.py

\* The presets every process registers when it builds its registry, and one
\* preset that only a later register() call can add.
DefaultStyles == {"classic-tuxedo"}
StyleIds == DefaultStyles \cup {"custom"}
Procs == {"api", "worker"}

\* StylePreset, as far as presets are told apart: its id and its name
StylePreset(id, name) == [id |-> id, name |-> name]

\* The presets the running pipeline registers: one per style id
Presets == {StylePreset(id, "original") : id \in StyleIds}

\* StyleRegistry.__init__: the dict _styles after _register_default_styles
default_styles == [id \in DefaultStyles |-> StylePreset(id, "original")]

\* Mutant of register: an id that is present keeps its earlier preset
register_keeps_existing(styles, style) ==
    [id \in DOMAIN styles \cup {style.id} |->
        IF id \in DOMAIN styles THEN styles[id] ELSE style]

\* StyleRegistry.register: self._styles[style.id] = style
register(styles, style) ==
    [id \in DOMAIN styles \cup {style.id} |->
        IF id = style.id THEN style ELSE styles[id]]

\* StyleRegistry.style_exists: style_id in self._styles
style_exists(styles, style_id) == style_id \in DOMAIN styles

\* StyleRegistry.get_style_ids: list(self._styles.keys()), as a set
get_style_ids(styles) == DOMAIN styles

\* StyleRegistry.get_all_styles: list(self._styles.values()), as a set
get_all_styles(styles) == {styles[id] : id \in DOMAIN styles}

VARIABLES
    store,        \* metadata_dir: job_id -> JobMetadata, one JSON file per job
    uploads,      \* upload_dir: the input filenames that exist on disk
    queue,        \* the dispatch queue: job_id -> number of pending deliveries
    deliveries,   \* job_id -> how often the queue has handed it to a worker
    issued,       \* how many job identifiers uuid4 has produced
    registry,     \* per process: the dict _styles of its StyleRegistry singleton
    settings,     \* the worker processes' Settings (generator, API token)
    worker,       \* per worker process: its position in process_image
    now,          \* the clock datetime.utcnow() reads
    last_poll,    \* the latest get_job answer, kept while its record is unwritten
    call          \* the latest direct call of a service function and its result

vars == <<store, uploads, queue, deliveries, issued, registry,
          settings, worker, now, last_poll, call>>

\* ------------------------------------------------------------- storage.py

\* StorageService.save_upload: f"{job_id}-input.{ext}"
upload_filename(job_id, ext) == <<ToString(job_id), "-input.", ext>>

\* StorageService.get_upload_path: upload_dir / filename
get_upload_path(filename) == <<"uploads/">> \o filename

\* StorageService.get_output_path: output_dir / filename
get_output_path(filename) == <<"outputs/">> \o filename

\* Path.exists() of an upload path
upload_exists(files, filename) == filename \in files

\* --------------------------------------------------------- job_service.py

\* JobService._load_metadata: None when the file does not exist
load_metadata(st, job_id) ==
    IF job_id \in DOMAIN st THEN Some(st[job_id]) ELSE None

\* JobService._save_metadata: open(path, 'w') creates or overwrites the file
save_metadata(st, metadata) ==
    [j \in DOMAIN st \cup {metadata.job_id} |->
        IF j = metadata.job_id THEN metadata ELSE st[j]]

\* JobService._metadata_to_response
metadata_to_response(metadata) ==
    [job_id     |-> metadata.job_id,
     status     |-> metadata.status,
     progress   |-> metadata.progress,
     result_url |-> IF metadata.output_filename # None
                       /\ The(metadata.output_filename) # <<>>
                    THEN Some(<<"/outputs/">> \o The(metadata.output_filename))
                    ELSE None,
     error      |-> metadata.error,
     created_at |-> metadata.created_at,
     updated_at |-> metadata.updated_at,
     style_id   |-> metadata.style_id]

\* Mutant of new_metadata: the record starts out as Processing
new_metadata_processing(job_id, style_id, input_filename, t) ==
    [job_id          |-> job_id,
     status          |-> PROCESSING,
     progress        |-> 5,
     style_id        |-> style_id,
     input_filename  |-> input_filename,
     output_filename |-> None,
     error           |-> None,
     created_at      |-> t,
     updated_at      |-> t]

\* The JobMetadata that JobService.create_job builds
new_metadata(job_id, style_id, input_filename, t) ==
    [job_id          |-> job_id,
     status          |-> PENDING,
     progress        |-> 0,
     style_id        |-> style_id,
     input_filename  |-> input_filename,
     output_filename |-> None,
     error           |-> None,
     created_at      |-> t,
     updated_at      |-> t]

\* Mutant of create_job: the record is built and returned, never saved
create_job_unsaved(st, job_id, style_id, input_filename, t) == st

\* JobService.create_job: the store after the call
create_job(st, job_id, style_id, input_filename, t) ==
    save_metadata(st, new_metadata(job_id, style_id, input_filename, t))

\* JobService.create_job: the value returned
create_job_returns(job_id, style_id, input_filename, t) ==
    metadata_to_response(new_metadata(job_id, style_id, input_filename, t))

\* Mutant of get_job: an identifier without a record yields a fresh one
get_job_or_fresh(st, job_id) ==
    LET metadata == load_metadata(st, job_id)
    IN  IF metadata = None
        THEN Some(create_job_returns(job_id, "classic-tuxedo",
                                     upload_filename(job_id, "png"), 0))
        ELSE Some(metadata_to_response(The(metadata)))

\* JobService.get_job: the value returned
get_job(st, job_id) ==
    LET metadata == load_metadata(st, job_id)
    IN  IF metadata = None THEN None
        ELSE Some(metadata_to_response(The(metadata)))

\* Mutant of apply_update: the progress argument is added to the stored value
apply_update_adds_progress(metadata, status, progress, output_filename, error, t) ==
    [metadata EXCEPT
        !.status          = IF status # None THEN The(status) ELSE @,
        !.progress        = IF progress # None THEN @ + The(progress) ELSE @,
        !.output_filename = IF output_filename # None THEN output_filename ELSE @,
        !.error           = IF error # None THEN error ELSE @,
        !.updated_at      = t]

\* Mutant of apply_update: every argument is assigned, supplied or not
apply_update_assigns_all(metadata, status, progress, output_filename, error, t) ==
    [metadata EXCEPT
        !.status          = IF status # None THEN The(status) ELSE @,
        !.progress        = IF progress # None THEN The(progress) ELSE 0,
        !.output_filename = output_filename,
        !.error           = error,
        !.updated_at      = t]

\* Mutant of apply_update: a status other than Failed clears the error
apply_update_clears_error(metadata, status, progress, output_filename, error, t) ==
    [metadata EXCEPT
        !.status          = IF status # None THEN The(status) ELSE @,
        !.progress        = IF progress # None THEN The(progress) ELSE @,
        !.output_filename = IF output_filename # None THEN output_filename ELSE @,
        !.error           = IF error # None THEN error
                            ELSE IF status \notin {None, Some(FAILED)} THEN None
                            ELSE @,
        !.updated_at      = t]

\* JobService.update_job, the field assignments on the loaded metadata
apply_update(metadata, status, progress, output_filename, error, t) ==
    [metadata EXCEPT
        !.status          = IF status # None THEN The(status) ELSE @,
        !.progress        = IF progress # None THEN The(progress) ELSE @,
        !.output_filename = IF output_filename # None THEN output_filename ELSE @,
        !.error           = IF error # None THEN error ELSE @,
        !.updated_at      = t]

\* Mutant of update_job: a missing record is created instead of reported
update_job_upserts(st, job_id, status, progress, output_filename, error, t) ==
    LET metadata == load_metadata(st, job_id)
        loaded == IF metadata = None THEN new_metadata(job_id, "", <<>>, t)
                  ELSE The(metadata)
    IN  save_metadata(st, apply_update(loaded, status, progress,
                                       output_filename, error, t))

\* JobService.update_job: the store after the call
update_job(st, job_id, status, progress, output_filename, error, t) ==
    LET metadata == load_metadata(st, job_id)
    IN  IF metadata = None THEN st
        ELSE save_metadata(st, apply_update(The(metadata), status, progress,
                                            output_filename, error, t))

\* JobService.update_job: the value returned
update_job_returns(st, job_id, status, progress, output_filename, error, t) ==
    LET metadata == load_metadata(st, job_id)
    IN  IF metadata = None THEN None
        ELSE Some(metadata_to_response(
                 apply_update(The(metadata), status, progress,
                              output_filename, error, t)))

\* ------------------------------------------------------ generators/base.py

\* ImageGenerator.report_progress: the value handed to the callback
report_progress(progress) == Min(Max(progress, 0), 100)

\* ImageGenerator.validate_input: the exception raised, None when it passes.
\* Uploads are regular files, so only the existence check can fail.
validate_input(files, filename) ==
    IF ~upload_exists(files, filename)
    THEN Some(<<"Input file not found: ">> \o get_upload_path(filename))
    ELSE None

\* One step of a generate() call is its next progress report and the code that
\* runs before it (fallible: that code can raise), or the request loop of the
\* remote-warmup generator.
Report(p, fallible) == [kind |-> "report", p |-> p, fallible |-> fallible]
Request == [kind |-> "request", p |-> 0, fallible |-> TRUE]

\* A generator's position: the step it is at and the request attempts made.
GenStart == [pos |-> 1, attempt |-> 0]

\* What one step of generate() does: report a value (the callback is called),
\* wait (nothing is reported), or raise a GenerationError.
Reported(p, g) == [type |-> "report", p |-> p, gen |-> g, error |-> <<>>]
Waited(g) == [type |-> "wait", p |-> 0, gen |-> g, error |-> <<>>]
Raised(error) == [type |-> "raise", p |-> 0, gen |-> GenStart, error |-> error]

\* The steps of a generate() that is a straight line of reports: the first
\* report follows validate_input, every exception is wrapped as
\* GenerationError(f"{prefix}{str(e)}").
StraightLine(script, prefix, g, files, filename) ==
    LET step == script[g.pos]
        next == [g EXCEPT !.pos = @ + 1]
        invalid == validate_input(files, filename)
    IN  IF g.pos = 1
        THEN IF invalid # None
             THEN {Raised(prefix \o The(invalid))}
             ELSE {Reported(report_progress(step.p), next)}
        ELSE {Reported(report_progress(step.p), next)}
             \cup (IF step.fallible THEN {Raised(prefix \o <<"error">>)} ELSE {})

\* ------------------------------------------------------ generators/stub.py

\* progress = 20 + int((i + 1) / steps * 50), steps = 5
StubStepProgress(i) == 20 + (((i + 1) * 50) \div 5)

\* StubGenerator.generate: the reports of a generator built with that
\* simulate_delay
StubScriptFor(simulate_delay) ==
    <<Report(10, FALSE), Report(20, TRUE)>>
    \o (IF simulate_delay
        THEN [i \in 1..5 |-> Report(StubStepProgress(i - 1), FALSE)]
        ELSE <<>>)
    \o <<Report(75, TRUE), Report(85, TRUE), Report(95, TRUE), Report(100, TRUE)>>

\* StubGenerator.generate with simulate_delay=True, as get_generator builds it
StubScript == StubScriptFor(TRUE)

\* The styles STYLE_EFFECTS has an entry for, among those modelled
STYLE_EFFECTS == DefaultStyles

\* STYLE_EFFECTS.get(style.id, DEFAULT_EFFECT): which entry is applied
effects_for(style) ==
    IF style.id \in STYLE_EFFECTS THEN style.id ELSE "DEFAULT_EFFECT"

\* _add_style_label, lines 174-181: the font drawn with, out of the font
\* files the host has
load_font(fonts) ==
    CASE "/System/Library/Fonts/Helvetica.ttc" \in fonts -> "Helvetica"
      [] "/usr/share/fonts/truetype/dejavu/DejaVuSans-Bold.ttf" \in fonts ->
            "DejaVuSans-Bold"
      [] OTHER -> "default"

\* font_size = max(24, min(48, width // 15))
font_size(width) == Max(24, Min(48, width \div 15))

\* The image generate() saves, as the values its pixels are computed from:
\* the input converted to RGB, the effects of the style, the label text and
\* its font. Image.blend, ImageEnhance, ImageDraw and the PNG encoder compute
\* from these alone.
stub_image(input, style, fonts) ==
    [pixels |-> input.pixels, mode |-> "RGB", width |-> input.width,
     effects |-> effects_for(style), label |-> <<"sparkles ", style.name>>,
     font |-> load_font(fonts), font_size |-> font_size(input.width)]

\* The reports of the first n steps of a script
Reports(script, n) == [i \in 1..n |-> report_progress(script[i].p)]

\* Mutant of stub_generate: the label carries the name of the output file
stub_generate_labels_output(simulate_delay, input, style, output_path, fonts, raises_at) ==
    LET script == StubScriptFor(simulate_delay)
    IN  IF raises_at \in 1..Len(script)
        THEN [reports |-> Reports(script, raises_at - 1), output |-> None,
              raised |-> Some(<<"Stub generation failed: ", "error">>)]
        ELSE [reports |-> Reports(script, Len(script)),
              output |-> Some([path |-> output_path,
                               image |-> [stub_image(input, style, fonts)
                                            EXCEPT !.label = @ \o output_path]]),
              raised |-> None]

\* StubGenerator.generate as one call: what it reported, the file it saved
\* and the GenerationError it raised, when the code before report raises_at
\* raises (never, when raises_at is no step of the script)
stub_generate(simulate_delay, input, style, output_path, fonts, raises_at) ==
    LET script == StubScriptFor(simulate_delay)
    IN  IF raises_at \in 1..Len(script)
        THEN [reports |-> Reports(script, raises_at - 1), output |-> None,
              raised |-> Some(<<"Stub generation failed: ", "error">>)]
        ELSE [reports |-> Reports(script, Len(script)),
              output |-> Some([path |-> output_path,
                               image |-> stub_image(input, style, fonts)]),
              raised |-> None]

StubOutcomes(g, files, filename) ==
    StraightLine(StubScript, <<"Stub generation failed: ">>, g, files, filename)

\* ------------------------------------------------------ generators/real.py

\* RealGenerator.MAX_DIMENSION
MAX_DIMENSION == 640

\* int(dim * ratio) with ratio = MAX_DIMENSION / longest computed in floating
\* point: the floor of the exact quotient, or one less when the quotient is a
\* whole number and the rounding of the division falls below it
scale_dimension(dim, longest) ==
    LET exact == (dim * MAX_DIMENSION) \div longest
    IN  {exact} \cup (IF (dim * MAX_DIMENSION) % longest = 0 /\ exact > 0
                      THEN {exact - 1} ELSE {})

\* Lines 61-66: the sizes the image can have after `Resize if too large`
resize_if_too_large(width, height) ==
    IF width > MAX_DIMENSION \/ height > MAX_DIMENSION
    THEN {<<w, h>> : w \in scale_dimension(width, Max(width, height)),
                     h \in scale_dimension(height, Max(width, height))}
    ELSE {<<width, height>>}

\* Mutant of sent_dimension: the floor of 512 is left out
sent_dimension_without_floor(dim) == (dim \div 8) * 8

\* Lines 69-72: dim = (dim // 8) * 8, then max(512, dim)
sent_dimension(dim) == Max(512, (dim \div 8) * 8)

\* The width and height passed to replicate.run for an image of that size
sent_dimensions(width, height) ==
    {<<sent_dimension(size[1]), sent_dimension(size[2])>> :
        size \in resize_if_too_large(width, height)}

\* RealGenerator.generate: 10, 20, 30, then replicate.run, then 80, the check
\* of the output and its download, then 100
RealScript ==
    <<Report(10, FALSE), Report(20, TRUE), Report(30, FALSE), Request,
      Report(80, FALSE), Report(100, TRUE)>>

\* What replicate.run can end in: an output, an output that cannot be
\* downloaded, an empty output, a ReplicateError the service reports, or
\* another exception (the transport's)
ReplicateAnswers ==
    {"output", "undownloadable output", "empty", "replicate error",
     "transport error"}

\* Mutant of replicate_run: a failed call is made again
replicate_run_again(g, answer) ==
    CASE answer = "replicate error" -> Waited([g EXCEPT !.attempt = @ + 1])
      [] answer = "transport error" -> Waited([g EXCEPT !.attempt = @ + 1])
      [] OTHER -> Waited([g EXCEPT !.pos = @ + 1, !.attempt = @ + 1])

\* The call of replicate.run, line 94, and the handlers of generate
replicate_run(g, answer) ==
    CASE answer = "replicate error" ->
            Raised(<<"Replicate API error: ", "error">>)
      [] answer = "transport error" ->
            Raised(<<"Generation failed: ", "error">>)
      [] OTHER -> Waited([g EXCEPT !.pos = @ + 1, !.attempt = @ + 1])

\* replicate.run called against the service's answers in their order, from
\* position g: the calls made, the answer to the last one and how it ends
RECURSIVE replicate_run_all(_, _)
replicate_run_all(g, answers) ==
    IF g.attempt >= Len(answers)
    THEN [calls |-> g.attempt, answer |-> "none", end |-> Waited(g)]
    ELSE LET o == replicate_run(g, answers[g.attempt + 1])
         IN  IF o.type = "wait" /\ o.gen.pos = g.pos
             THEN replicate_run_all(o.gen, answers)
             ELSE [calls |-> g.attempt + 1, answer |-> answers[g.attempt + 1],
                   end |-> o]

\* How generate ends once replicate.run has: lines 117-143. The generator is
\* past the script when it returns the output path.
real_generate_end(run) ==
    CASE run.end.type # "wait" -> run.end
      [] run.answer = "none" -> run.end
      [] run.answer = "empty" ->
            Raised(<<"Generation failed: ", "No output received from AI model">>)
      [] run.answer = "undownloadable output" ->
            Raised(<<"Generation failed: ", "error">>)
      [] OTHER -> Waited([run.end.gen EXCEPT !.pos = Len(RealScript) + 1])

RealOutcomes(g, files, filename) ==
    IF RealScript[g.pos].kind = "request"
    THEN {replicate_run(g, a) : a \in ReplicateAnswers}
    ELSE StraightLine(RealScript, <<"Generation failed: ">>, g, files, filename)

\* ----------------------------------------------- generators/huggingface.py

\* HuggingFaceGenerator.generate: 10, 20, 30, then _generate_with_text2img
\* (40 and the request loop), then 90 and 100
HuggingFaceScript ==
    <<Report(10, FALSE), Report(20, TRUE), Report(30, FALSE), Report(40, FALSE),
      Request, Report(90, TRUE), Report(100, TRUE)>>

\* The answers of the inference endpoint that the loop tells apart
HttpResponses == {"200", "503", "429", "error", "timeout"}

\* _generate_with_text2img: max_retries = 3
max_retries == 3

\* Mutant of text2img_attempt: the loop allows one request more
text2img_attempt_once_more(g, response) ==
    LET again == [g EXCEPT !.attempt = @ + 1]
        prefix == <<"HuggingFace generation failed: ">>
    IN  IF g.attempt >= max_retries + 1
        THEN Raised(prefix \o <<"Failed to generate image from Hugging Face API">>)
        ELSE CASE response = "503" -> Reported(report_progress(50), again)
               [] response = "200" ->
                    Reported(report_progress(80), [g EXCEPT !.pos = @ + 1])
               [] response = "429" -> Waited(again)
               [] response = "timeout" -> Waited(again)
               [] OTHER -> Raised(prefix \o <<"error">>)

\* Mutant of text2img_attempt: the 429 branch is missing, so a rate-limit
\* answer reaches raise_for_status
text2img_attempt_without_rate_limit(g, response) ==
    LET again == [g EXCEPT !.attempt = @ + 1]
        prefix == <<"HuggingFace generation failed: ">>
    IN  IF g.attempt >= max_retries
        THEN Raised(prefix \o <<"Failed to generate image from Hugging Face API">>)
        ELSE CASE response = "503" -> Reported(report_progress(50), again)
               [] response = "200" ->
                    Reported(report_progress(80), [g EXCEPT !.pos = @ + 1])
               [] response = "timeout" ->
                    IF g.attempt < max_retries - 1 THEN Waited(again)
                    ELSE Raised(prefix \o <<"timeout">>)
               [] OTHER -> Raised(prefix \o <<"error">>)

\* One pass of the loop `for attempt in range(max_retries)`, max_retries = 3,
\* or its exit with `return None`, which generate() turns into an error
text2img_attempt(g, response) ==
    LET again == [g EXCEPT !.attempt = @ + 1]
        prefix == <<"HuggingFace generation failed: ">>
    IN  IF g.attempt >= max_retries
        THEN Raised(prefix \o <<"Failed to generate image from Hugging Face API">>)
        ELSE CASE response = "503" -> Reported(report_progress(50), again)
               [] response = "200" ->
                    Reported(report_progress(80), [g EXCEPT !.pos = @ + 1])
               [] response = "429" -> Waited(again)
               [] response = "timeout" ->
                    IF g.attempt < max_retries - 1 THEN Waited(again)
                    ELSE Raised(prefix \o <<"timeout">>)
               [] OTHER -> Raised(prefix \o <<"error">>)

\* The request loop run against the endpoint's answers in their order, from
\* position g: the requests made and how the loop ends
RECURSIVE generate_with_text2img(_, _)
generate_with_text2img(g, responses) ==
    IF g.attempt < max_retries /\ g.attempt >= Len(responses)
    THEN [requests |-> g.attempt, end |-> Waited(g)]
    ELSE LET response == IF g.attempt < Len(responses)
                         THEN responses[g.attempt + 1] ELSE "none"
             o == text2img_attempt(g, response)
         IN  IF o.type # "raise" /\ o.gen.pos = g.pos
             THEN generate_with_text2img(o.gen, responses)
             ELSE [requests |-> IF g.attempt < max_retries
                                THEN g.attempt + 1 ELSE g.attempt,
                   end |-> o]

HuggingFaceOutcomes(g, files, filename) ==
    IF HuggingFaceScript[g.pos].kind = "request"
    THEN {text2img_attempt(g, r) : r \in HttpResponses}
    ELSE StraightLine(HuggingFaceScript, <<"HuggingFace generation failed: ">>,
                      g, files, filename)

\* --------------------------------------------------------- workers/tasks.py

Generators == {"stub", "huggingface", "real"}

\* Mutant of get_generator: the setting is compared without regard to case
get_generator_ignoring_case(image_generator) ==
    CASE image_generator \in {"huggingface", "HuggingFace"} -> "huggingface"
      [] image_generator \in {"real", "REAL"} -> "real"
      [] OTHER -> "stub"

\* get_generator: the generator class for a setting; every value other than
\* 'huggingface' and 'real' selects the stub
get_generator(image_generator) ==
    CASE image_generator = "huggingface" -> "huggingface"
      [] image_generator = "real" -> "real"
      [] OTHER -> "stub"

\* RealGenerator.__init__ raises ValueError without REPLICATE_API_TOKEN
generator_init_error(kind, conf) ==
    IF kind = "real" /\ ~conf.replicate_api_token
    THEN Some(<<"REPLICATE_API_TOKEN environment variable is required. ">>)
    ELSE None

GenScript(kind) ==
    CASE kind = "huggingface" -> HuggingFaceScript
      [] kind = "real" -> RealScript
      [] OTHER -> StubScript

GenOutcomes(kind, g, files, filename) ==
    CASE kind = "huggingface" -> HuggingFaceOutcomes(g, files, filename)
      [] kind = "real" -> RealOutcomes(g, files, filename)
      [] OTHER -> StubOutcomes(g, files, filename)

\* The prefix under which generate() wraps every exception raised inside it
GenPrefix(kind) ==
    CASE kind = "huggingface" -> <<"HuggingFace generation failed: ">>
      [] kind = "real" -> <<"Generation failed: ">>
      [] OTHER -> <<"Stub generation failed: ">>

\* generate() has returned: no step is left
GenReturned(kind, g) == g.pos > Len(GenScript(kind))

\* Mutant of get_style: an unknown id yields a preset made up for it
get_style_or_default(styles, style_id) ==
    IF style_id \in DOMAIN styles THEN Some(styles[style_id])
    ELSE Some(StylePreset(style_id, "original"))

\* registry.get_style: self._styles.get(style_id), the preset or None
get_style(styles, style_id) ==
    IF style_id \in DOMAIN styles THEN Some(styles[style_id]) ELSE None

\* output_filename = f"{job_id}-output.png"
output_filename_of(job_id) == <<ToString(job_id), "-output.png">>

\* Mutant of mark_processing: the status argument is left out
mark_processing_without_status(st, job_id, t) ==
    update_job(st, job_id, None, Some(5), None, None, t)

\* process_image, line 52: update_job(job_id, status=PROCESSING, progress=5)
mark_processing(st, job_id, t) ==
    update_job(st, job_id, Some(PROCESSING), Some(5), None, None, t)

\* Mutant of on_progress: the report of 100 also marks the job Completed
on_progress_completes(st, job_id, progress, t) ==
    update_job(st, job_id,
               IF progress = 100 THEN Some(COMPLETED) ELSE None,
               Some(progress), None, None, t)

\* Mutant of on_progress: a value equal to the stored progress is not written
on_progress_skips_duplicates(st, job_id, progress, t) ==
    IF job_id \in DOMAIN st /\ st[job_id].progress = progress
    THEN st
    ELSE update_job(st, job_id, None, Some(progress), None, None, t)

\* Mutant of on_progress: the write stamps every record of the store
on_progress_stamps_all(st, job_id, progress, t) ==
    [j \in DOMAIN st |->
        IF j = job_id
        THEN update_job(st, job_id, None, Some(progress), None, None, t)[j]
        ELSE [st[j] EXCEPT !.updated_at = t]]

\* process_image, on_progress: update_job(job_id, progress=progress)
on_progress(st, job_id, progress, t) ==
    update_job(st, job_id, None, Some(progress), None, None, t)

\* Mutant of mark_completed: the output_filename argument is left out
mark_completed_without_output(st, job_id, t) ==
    update_job(st, job_id, Some(COMPLETED), Some(100), None, None, t)

\* process_image, lines 95-100: the Completed write
mark_completed(st, job_id, t) ==
    update_job(st, job_id, Some(COMPLETED), Some(100),
               Some(output_filename_of(job_id)), None, t)

\* Mutant of mark_generation_error: the status argument is left out
mark_generation_error_without_status(st, job_id, e, t) ==
    update_job(st, job_id, None, None, None, Some(e), t)

\* process_image, except GenerationError: error=str(e)
\* Mutant of mark_generation_error: the write also sets progress back to 0
mark_generation_error_resets_progress(st, job_id, e, t) ==
    update_job(st, job_id, Some(FAILED), Some(0), None, Some(e), t)

\* Mutant of mark_generation_error: the message is prefixed like that of any
\* other exception
mark_generation_error_prefixed(st, job_id, e, t) ==
    update_job(st, job_id, Some(FAILED), None, None,
               Some(<<"Processing failed: ">> \o e), t)

mark_generation_error(st, job_id, e, t) ==
    update_job(st, job_id, Some(FAILED), None, None, Some(e), t)

\* Mutant of mark_failed: the failure resets the progress
mark_failed_resets_progress(st, job_id, e, t) ==
    update_job(st, job_id, Some(FAILED), Some(0), None,
               Some(<<"Processing failed: ">> \o e), t)

\* process_image, except Exception: error=f"Processing failed: {str(e)}"
mark_failed(st, job_id, e, t) ==
    update_job(st, job_id, Some(FAILED), None, None,
               Some(<<"Processing failed: ">> \o e), t)

\* Mutant of resolve_error: the existence check of the input path is left out
resolve_error_without_input_check(styles, files, conf, metadata) ==
    IF get_style(styles, metadata.style_id) = None
    THEN Some(<<"Style not found: ", metadata.style_id>>)
    ELSE generator_init_error(get_generator(conf.image_generator), conf)

\* Mutant of resolve_error: the check of the style is left out
resolve_error_without_style_check(styles, files, conf, metadata) ==
    IF ~upload_exists(files, metadata.input_filename)
    THEN Some(<<"Input file not found: ">>
              \o get_upload_path(metadata.input_filename))
    ELSE generator_init_error(get_generator(conf.image_generator), conf)

\* process_image, lines 55-73: the exception raised before generate() is
\* called, None when the style, the input file and the generator are there
resolve_error(styles, files, conf, metadata) ==
    IF get_style(styles, metadata.style_id) = None
    THEN Some(<<"Style not found: ", metadata.style_id>>)
    ELSE IF ~upload_exists(files, metadata.input_filename)
    THEN Some(<<"Input file not found: ">>
              \o get_upload_path(metadata.input_filename))
    ELSE generator_init_error(get_generator(conf.image_generator), conf)

\* ------------------------------------------------------------ the processes

Idle == [pc |-> "idle", job_id |-> 0, gen |-> GenStart]

\* No get_job answer is held for comparison
NoPoll == [job_id |-> 0, response |-> None]

\* No service function has been called directly
NoCall == [op |-> "none"]

\* last_poll after a write to the record of job_id: an answer about that
\* record is dropped, the next poll may differ from it
Touched(job_id) == IF last_poll.job_id = job_id THEN NoPoll ELSE last_poll

Init ==
    /\ store = <<>>
    /\ uploads = {}
    /\ queue = [j \in JobIds |-> 0]
    /\ deliveries = [j \in JobIds |-> 0]
    /\ issued = 0
    /\ registry = [p \in Procs |-> default_styles]
    /\ settings \in {[image_generator |-> g, replicate_api_token |-> b] :
                        g \in Generators, b \in BOOLEAN}
    /\ settings.image_generator # "real" => settings.replicate_api_token
    /\ worker = [w \in Workers |-> Idle]
    /\ now = 0
    /\ last_poll = NoPoll
    /\ call = NoCall

\* datetime.utcnow() advances
Tick ==
    /\ now < MaxTime
    /\ now' = now + 1
    /\ UNCHANGED <<store, uploads, queue, deliveries, issued, registry,
                   settings, worker, last_poll, call>>

\* StyleRegistry.register on the singleton of one process
RegisterStyle(p, style) ==
    /\ registry' = [registry EXCEPT ![p] = register(@, style)]
    /\ UNCHANGED <<store, uploads, queue, deliveries, issued, settings,
                   worker, now, last_poll>>

\* StorageService.delete_upload
DeleteUpload(filename) ==
    /\ filename \in uploads
    /\ uploads' = uploads \ {filename}
    /\ UNCHANGED <<store, queue, deliveries, issued, registry, settings,
                   worker, now, last_poll, call>>

\* ---------------------------------------------------------- validators.py

\* str.lower() on the extensions and content types the model uploads
Lower(str) ==
    CASE str = "PNG" -> "png"
      [] str = "Jpg" -> "jpg"
      [] str = "IMAGE/PNG" -> "image/png"
      [] str = "Image/Jpeg" -> "image/jpeg"
      [] OTHER -> str

\* Path(filename).suffix of a filename given as its parts between the dots
\* (<<"photo", "png">> is photo.png, <<"", "png">> is .png), without the
\* dot: empty when the name has no dot, ends with its last dot or has
\* nothing before it
suffix(filename) ==
    IF Len(filename) < 2 THEN ""
    ELSE IF Len(filename) = 2 /\ filename[1] = "" THEN ""
    ELSE filename[Len(filename)]

\* get_file_extension: Path(filename).suffix.lower().lstrip('.')
get_file_extension(filename) == Lower(suffix(filename))

\* Settings.allowed_extensions_list of the default "jpg,jpeg,png,webp"
allowed_extensions_list == {"jpg", "jpeg", "png", "webp"}

ALLOWED_MIME_TYPES == {"image/jpeg", "image/png", "image/webp"}

validate_file_extension(filename) ==
    get_file_extension(filename) \in allowed_extensions_list

\* Mutant of validate_mime_type: the content type is compared as it is
validate_mime_type_as_sent(content_type) ==
    IF content_type = None THEN FALSE
    ELSE The(content_type) \in ALLOWED_MIME_TYPES

\* validate_mime_type: content_type.lower() in ALLOWED_MIME_TYPES
validate_mime_type(content_type) ==
    IF content_type = None THEN FALSE
    ELSE Lower(The(content_type)) \in ALLOWED_MIME_TYPES

\* validate_image_file: the ValueError raised, None when the file passes
validate_image_file(file) ==
    IF file.filename = None \/ The(file.filename) = <<>>
    THEN Some(<<"Filename is required">>)
    ELSE IF ~validate_file_extension(The(file.filename))
    THEN Some(<<"File type not allowed. Allowed types: ">>)
    ELSE IF ~validate_mime_type(file.content_type)
    THEN Some(<<"Invalid content type: ">>)
    ELSE None

\* Settings.max_file_size_mb, the default
max_file_size_mb == 10

\* Settings.max_file_size_bytes
max_file_size_bytes == max_file_size_mb * 1024 * 1024

\* The uploads a client sends; size is the number of bytes of the file
Images ==
    {[filename |-> Some(<<"photo", "png">>), content_type |-> Some("image/png"),
      size |-> 1024],
     [filename |-> Some(<<"photo", "png">>), content_type |-> Some("image/png"),
      size |-> max_file_size_bytes + 1],
     [filename |-> Some(<<"photo", "PNG">>), content_type |-> Some("image/png"),
      size |-> 1024],
     [filename |-> Some(<<"photo", "gif">>), content_type |-> Some("image/gif"),
      size |-> 1024],
     [filename |-> Some(<<"photo", "png">>), content_type |-> None,
      size |-> 1024],
     [filename |-> None, content_type |-> Some("image/png"), size |-> 1024]}

\* ------------------------------------------------------------ routes/jobs.py

\* POST /jobs, lines 52-67: the detail of the HTTPException(400) raised for
\* an unknown style or a refused file, None when both checks pass
create_job_rejection(styles, style_id, image) ==
    IF get_style(styles, style_id) = None
    THEN Some(<<"Style '", style_id, "' not found. ">>)
    ELSE validate_image_file(image)

\* POST /jobs answered 400: the style is unknown or the file is refused
SubmitRejected(style_id, image) ==
    /\ \/ get_style(registry["api"], style_id) = None
       \/ validate_image_file(image) # None
    /\ UNCHANGED <<store, uploads, queue, deliveries, issued, registry,
                   settings, worker, now, last_poll>>

\* POST /jobs answered 500: a job id is drawn and save_upload raises
SubmitUploadFails(style_id, image) ==
    /\ get_style(registry["api"], style_id) # None
    /\ validate_image_file(image) = None
    /\ issued < Cardinality(JobIds)
    /\ issued' = issued + 1
    /\ UNCHANGED <<store, uploads, queue, deliveries, registry, settings,
                   worker, now, last_poll>>

\* POST /jobs answered with the job: the upload is saved, the record is
\* created and the identifier is enqueued
SubmitAccepted(style_id, image) ==
    /\ get_style(registry["api"], style_id) # None
    /\ validate_image_file(image) = None
    /\ issued < Cardinality(JobIds)
    /\ LET job_id == issued + 1
           input_filename ==
               upload_filename(job_id, get_file_extension(The(image.filename)))
       IN  /\ issued' = job_id
           /\ uploads' = uploads \cup {input_filename}
           /\ store' = create_job(store, job_id, style_id, input_filename, now)
           /\ queue' = [queue EXCEPT ![job_id] = @ + 1]
           /\ last_poll' = Touched(job_id)
    /\ UNCHANGED <<deliveries, registry, settings, worker, now>>

\* str(e) of the error the record store or the queue raises when it is
\* unavailable (OSError from open(), ConnectionError from Redis)
InfrastructureError == <<"infrastructure error">>

\* POST /jobs answered 500: the upload is saved, create_job raises on the
\* store and the error leaves the route
SubmitCreateFails(style_id, image) ==
    /\ get_style(registry["api"], style_id) # None
    /\ validate_image_file(image) = None
    /\ issued < Cardinality(JobIds)
    /\ LET job_id == issued + 1
           input_filename ==
               upload_filename(job_id, get_file_extension(The(image.filename)))
       IN  /\ issued' = job_id
           /\ uploads' = uploads \cup {input_filename}
    /\ UNCHANGED <<store, queue, deliveries, registry, settings, worker, now,
                   last_poll>>

\* POST /jobs answered 500: the upload is saved and the record created,
\* enqueue_job raises on the queue and the error leaves the route
SubmitEnqueueFails(style_id, image) ==
    /\ get_style(registry["api"], style_id) # None
    /\ validate_image_file(image) = None
    /\ issued < Cardinality(JobIds)
    /\ LET job_id == issued + 1
           input_filename ==
               upload_filename(job_id, get_file_extension(The(image.filename)))
       IN  /\ issued' = job_id
           /\ uploads' = uploads \cup {input_filename}
           /\ store' = create_job(store, job_id, style_id, input_filename, now)
           /\ last_poll' = Touched(job_id)
    /\ UNCHANGED <<queue, deliveries, registry, settings, worker, now>>

\* Mutant of get_job_store: the read fails a record it finds in Processing
get_job_store_fails_processing(st, job_id, t) ==
    IF job_id \in DOMAIN st /\ st[job_id].status = PROCESSING
    THEN mark_failed(st, job_id, <<"timed out">>, t)
    ELSE st

\* Mutant of get_job_store: the read stamps updated_at and saves
get_job_store_touches(st, job_id, t) ==
    update_job(st, job_id, None, None, None, None, t)

\* What get_job does to the store: it loads and never saves
get_job_store(st, job_id, t) == st

\* GET /jobs/{job_id}: the client polls and keeps the answer
GetJob(job_id) ==
    /\ store' = get_job_store(store, job_id, now)
    /\ last_poll' = [job_id |-> job_id, response |-> get_job(store, job_id)]
    /\ UNCHANGED <<uploads, queue, deliveries, issued, registry, settings,
                   worker, now, call>>

\* --------------------------------------------------------- the dispatch queue

\* The queue hands an identifier to one worker at a time
Busy(job_id) == \E w \in Workers : worker[w].job_id = job_id

\* How many deliveries were repeats of an earlier one
RECURSIVE SumOver(_, _)
SumOver(f, S) ==
    IF S = {} THEN 0
    ELSE LET x == CHOOSE y \in S : TRUE IN f[x] + SumOver(f, S \ {x})

Redeliveries ==
    SumOver([j \in JobIds |-> Max(deliveries[j] + queue[j] - 1, 0)], JobIds)

\* At-least-once delivery: an identifier already handed out is enqueued again
Redeliver(job_id) ==
    /\ deliveries[job_id] >= 1
    /\ queue[job_id] = 0
    /\ Redeliveries < MaxRedeliveries
    /\ queue' = [queue EXCEPT ![job_id] = @ + 1]
    /\ UNCHANGED <<store, uploads, deliveries, issued, registry, settings,
                   worker, now, last_poll, call>>

\* The worker process dies in mid-pass (crash, or the queue's execution
\* timeout kills it): nothing more is written
Cutoff(w) ==
    /\ worker[w].pc # "idle"
    /\ worker' = [worker EXCEPT ![w] = Idle]
    /\ UNCHANGED <<store, uploads, queue, deliveries, issued, registry,
                   settings, now, last_poll, call>>

\* ------------------------------------------------- workers/tasks.py, the pass

\* process_image, lines 39-52: the job is looked up and marked Processing
ProcessImageBegin(w, job_id) ==
    /\ worker[w].pc = "idle"
    /\ queue[job_id] > 0
    /\ ~Busy(job_id)
    /\ queue' = [queue EXCEPT ![job_id] = @ - 1]
    /\ deliveries' = [deliveries EXCEPT ![job_id] = @ + 1]
    /\ IF get_job(store, job_id) = None
       THEN UNCHANGED <<store, worker, last_poll>>
       ELSE /\ store' = mark_processing(store, job_id, now)
            /\ worker' = [worker EXCEPT ![w] =
                            [pc |-> "resolve", job_id |-> job_id, gen |-> GenStart]]
            /\ last_poll' = Touched(job_id)
    /\ UNCHANGED <<uploads, issued, registry, settings, now, call>>

\* process_image, lines 46-52: get_job or the Processing write raises on the
\* store; both stand outside the try block, the error leaves process_image
ProcessImageBeginRaises(w, job_id) ==
    /\ worker[w].pc = "idle"
    /\ queue[job_id] > 0
    /\ ~Busy(job_id)
    /\ queue' = [queue EXCEPT ![job_id] = @ - 1]
    /\ deliveries' = [deliveries EXCEPT ![job_id] = @ + 1]
    /\ UNCHANGED <<store, uploads, issued, registry, settings, worker, now,
                   last_poll, call>>

\* process_image, lines 55-73: style, input file and generator are resolved;
\* an exception here is written as Failed by `except Exception`
ProcessImageResolve(w) ==
    /\ worker[w].pc = "resolve"
    /\ LET job_id == worker[w].job_id
           e == resolve_error(registry["worker"], uploads, settings, store[job_id])
       IN  IF e # None
           THEN /\ store' = mark_failed(store, job_id, The(e), now)
                /\ worker' = [worker EXCEPT ![w] = Idle]
                /\ last_poll' = Touched(job_id)
           ELSE /\ worker' = [worker EXCEPT ![w].pc = "generate"]
                /\ UNCHANGED <<store, last_poll>>
    /\ UNCHANGED <<uploads, queue, deliveries, issued, registry, settings, now, call>>

\* The steps generate() can take next in worker w
Outcomes(w) ==
    IF GenReturned(get_generator(settings.image_generator), worker[w].gen)
    THEN {}
    ELSE GenOutcomes(get_generator(settings.image_generator), worker[w].gen,
                     uploads, store[worker[w].job_id].input_filename)

\* generate() reports progress: on_progress writes it to the record
ProcessImageProgress(w) ==
    /\ worker[w].pc = "generate"
    /\ \E o \in Outcomes(w) :
        /\ o.type = "report"
        /\ store' = on_progress(store, worker[w].job_id, o.p, now)
        /\ worker' = [worker EXCEPT ![w].gen = o.gen]
        /\ last_poll' = Touched(worker[w].job_id)
    /\ UNCHANGED <<uploads, queue, deliveries, issued, registry, settings, now, call>>

\* generate() reports progress and on_progress raises: update_job fails on
\* the store. generate() wraps the error as a GenerationError, and the handler
\* of process_image writes the job as Failed with that message, unless this
\* write fails too and the error leaves process_image
ProcessImageCallbackError(w) ==
    /\ worker[w].pc = "generate"
    /\ \E o \in Outcomes(w) : o.type = "report"
    /\ worker' = [worker EXCEPT ![w] = Idle]
    /\ \/ /\ store' = mark_generation_error(
                          store, worker[w].job_id,
                          GenPrefix(get_generator(settings.image_generator))
                              \o InfrastructureError, now)
          /\ last_poll' = Touched(worker[w].job_id)
       \/ UNCHANGED <<store, last_poll>>
    /\ UNCHANGED <<uploads, queue, deliveries, issued, registry, settings, now,
                   call>>

\* generate() sleeps and retries its request: nothing is written
ProcessImageWait(w) ==
    /\ worker[w].pc = "generate"
    /\ \E o \in Outcomes(w) :
        /\ o.type = "wait"
        /\ worker' = [worker EXCEPT ![w].gen = o.gen]
    /\ UNCHANGED <<store, uploads, queue, deliveries, issued, registry,
                   settings, now, last_poll, call>>

\* generate() raises GenerationError: the job is written as Failed
ProcessImageGenerationError(w) ==
    /\ worker[w].pc = "generate"
    /\ \E o \in Outcomes(w) :
        /\ o.type = "raise"
        /\ store' = mark_generation_error(store, worker[w].job_id, o.error, now)
        /\ worker' = [worker EXCEPT ![w] = Idle]
        /\ last_poll' = Touched(worker[w].job_id)
    /\ UNCHANGED <<uploads, queue, deliveries, issued, registry, settings, now, call>>

\* generate() has returned: the job is written as Completed
ProcessImageComplete(w) ==
    /\ worker[w].pc = "generate"
    /\ GenReturned(get_generator(settings.image_generator), worker[w].gen)
    /\ store' = mark_completed(store, worker[w].job_id, now)
    /\ worker' = [worker EXCEPT ![w] = Idle]
    /\ last_poll' = Touched(worker[w].job_id)
    /\ UNCHANGED <<uploads, queue, deliveries, issued, registry, settings, now, call>>

Next ==
    \/ Tick
    \/ \E p \in Procs, s \in Presets : RegisterStyle(p, s) /\ UNCHANGED call
    \/ \E f \in uploads : DeleteUpload(f)
    \/ \E s \in StyleIds, i \in Images : SubmitRejected(s, i) /\ UNCHANGED call
    \/ \E s \in StyleIds, i \in Images : SubmitUploadFails(s, i) /\ UNCHANGED call
    \/ \E s \in StyleIds, i \in Images : SubmitCreateFails(s, i) /\ UNCHANGED call
    \/ \E s \in StyleIds, i \in Images : SubmitEnqueueFails(s, i) /\ UNCHANGED call
    \/ \E s \in StyleIds, i \in Images : SubmitAccepted(s, i) /\ UNCHANGED call
    \/ \E j \in JobIds : GetJob(j)
    \/ \E j \in JobIds : Redeliver(j)
    \/ \E w \in Workers : Cutoff(w)
    \/ \E w \in Workers, j \in JobIds : ProcessImageBegin(w, j)
    \/ \E w \in Workers, j \in JobIds : ProcessImageBeginRaises(w, j)
    \/ \E w \in Workers : ProcessImageResolve(w)
    \/ \E w \in Workers : ProcessImageCallbackError(w)
    \/ \E w \in Workers : ProcessImageProgress(w)
    \/ \E w \in Workers : ProcessImageWait(w)
    \/ \E w \in Workers : ProcessImageGenerationError(w)
    \/ \E w \in Workers : ProcessImageComplete(w)

Spec == Init /\ [][Next]_vars

\* ------------------------------------- the pipeline beside an earlier job

\* The identifier of a job that went through the pipeline earlier
OlderJobId == Cardinality(JobIds) + 1

\* The store that job left behind: its record, Completed
OlderStore ==
    mark_completed(
        mark_processing(
            create_job(<<>>, OlderJobId, "classic-tuxedo",
                       upload_filename(OlderJobId, "png"), 0),
            OlderJobId, 0),
        OlderJobId, 0)

\* The processes start on the store of the earlier job
OlderJobInit ==
    /\ store = OlderStore
    /\ uploads = {}
    /\ queue = [j \in JobIds |-> 0]
    /\ deliveries = [j \in JobIds |-> 0]
    /\ issued = 0
    /\ registry = [p \in Procs |-> default_styles]
    /\ settings \in {[image_generator |-> g, replicate_api_token |-> b] :
                        g \in Generators, b \in BOOLEAN}
    /\ settings.image_generator # "real" => settings.replicate_api_token
    /\ worker = [w \in Workers |-> Idle]
    /\ now = 0
    /\ last_poll = NoPoll
    /\ call = NoCall

OlderJobSpec == OlderJobInit /\ [][Next]_vars

\* ------------------------------------------- the services, called directly

\* The identifiers callers ask about: those uuid4 produces and one that never
\* gets a record
ServiceJobIds == JobIds \cup {2}

\* The arguments callers pass to update_job
ServiceStatuses == {None, Some(PROCESSING), Some(FAILED)}
ServiceProgress == {None, Some(40)}
ServiceOutputs == {None, Some(<<"1", "-output.png">>)}
ServiceErrors == {None, Some(<<"boom">>)}

CallCreateJob(job_id, style_id) ==
    LET input_filename == upload_filename(job_id, "png") IN
    /\ store' = create_job(store, job_id, style_id, input_filename, now)
    /\ call' = [op |-> "create_job", job_id |-> job_id,
                result |-> Some(create_job_returns(job_id, style_id,
                                                   input_filename, now))]
    /\ last_poll' = Touched(job_id)
    /\ UNCHANGED <<uploads, queue, deliveries, issued, registry, settings,
                   worker, now>>

CallUpdateJob(job_id, status, progress, output_filename, error) ==
    /\ store' = update_job(store, job_id, status, progress, output_filename,
                           error, now)
    /\ call' = [op |-> "update_job", job_id |-> job_id,
                status |-> status, progress |-> progress,
                output_filename |-> output_filename, error |-> error,
                result |-> update_job_returns(store, job_id, status, progress,
                                              output_filename, error, now)]
    /\ last_poll' = Touched(job_id)
    /\ UNCHANGED <<uploads, queue, deliveries, issued, registry, settings,
                   worker, now>>

CallGetJob(job_id) ==
    /\ store' = get_job_store(store, job_id, now)
    /\ call' = [op |-> "get_job", job_id |-> job_id,
                result |-> get_job(store, job_id)]
    /\ UNCHANGED <<uploads, queue, deliveries, issued, registry, settings,
                   worker, now, last_poll>>

\* The answer a client of POST /jobs receives
Answer(style_id, status_code, detail) ==
    [op |-> "POST /jobs", style_id |-> style_id, status_code |-> status_code,
     detail |-> detail]

\* POST /jobs, the request and the answer it gets: 400 with the detail of the
\* check that failed, 500 when the upload cannot be saved or the store or the
\* queue raises, else the job (200)
CallPostJobs(style_id, image) ==
    \/ /\ SubmitRejected(style_id, image)
       /\ call' = Answer(style_id, 400,
                         The(create_job_rejection(registry["api"], style_id, image)))
    \/ /\ SubmitUploadFails(style_id, image)
       /\ call' = Answer(style_id, 500, <<"Failed to save uploaded file">>)
    \/ /\ SubmitCreateFails(style_id, image) \/ SubmitEnqueueFails(style_id, image)
       /\ call' = Answer(style_id, 500, InfrastructureError)
    \/ /\ SubmitAccepted(style_id, image)
       /\ call' = Answer(style_id, 200, <<>>)

\* The processes run with the default Settings (the token, which only
\* RealGenerator reads, in the one value Init keeps for the other generators)
DefaultSettings == [image_generator |-> "huggingface", replicate_api_token |-> TRUE]

ServiceInit == Init /\ settings = DefaultSettings

ServiceNext ==
    \/ Tick
    \/ \E s \in StyleIds, i \in Images : CallPostJobs(s, i)
    \/ \E j \in JobIds, s \in StyleIds : CallCreateJob(j, s)
    \/ \E j \in ServiceJobIds, st \in ServiceStatuses, p \in ServiceProgress,
          o \in ServiceOutputs, e \in ServiceErrors :
            CallUpdateJob(j, st, p, o, e)
    \/ \E j \in ServiceJobIds : CallGetJob(j)

ServiceSpec == ServiceInit /\ [][ServiceNext]_vars

\* ------------------------- the pipeline with update_job in its two halves

\* The writes of process_image: which update_job call, with its argument
ProcessingWrite == [kind |-> "processing", p |-> 0, e |-> <<>>]
ProgressWrite(p) == [kind |-> "progress", p |-> p, e |-> <<>>]
CompletedWrite == [kind |-> "completed", p |-> 0, e |-> <<>>]
GenerationErrorWrite(e) == [kind |-> "generation error", p |-> 0, e |-> e]
FailedWrite(e) == [kind |-> "failed", p |-> 0, e |-> e]

\* The update_job call of a write, on store st
apply_write(st, job_id, write, t) ==
    CASE write.kind = "processing" -> mark_processing(st, job_id, t)
      [] write.kind = "progress" -> on_progress(st, job_id, write.p, t)
      [] write.kind = "completed" -> mark_completed(st, job_id, t)
      [] write.kind = "generation error" ->
            mark_generation_error(st, job_id, write.e, t)
      [] OTHER -> mark_failed(st, job_id, write.e, t)

\* Mutant of save_loaded: the update is applied to the record the store
\* holds at the time of the save
save_reloaded(st, loaded, write, t) ==
    apply_write(st, loaded.job_id, write, t)

\* update_job from its assignments on: the metadata loaded earlier gets the
\* arguments and the time, and _save_metadata writes it over the file
save_loaded(st, loaded, write, t) ==
    save_metadata(
        st,
        apply_write(loaded.job_id :> loaded, loaded.job_id, write, t)[loaded.job_id])

\* A worker between the _load_metadata and the _save_metadata of update_job:
\* it holds the metadata it loaded, the write it is making and where it
\* goes on afterwards
Saving(job_id, loaded, write, then) ==
    [pc |-> "save", job_id |-> job_id, gen |-> then.gen, loaded |-> loaded,
     write |-> write, then |-> then]

\* The queue hands an identifier to a worker, also while another worker is
\* in a pass on it; process_image finds the record (line 46)
RaceTake(w, job_id) ==
    /\ worker[w].pc = "idle"
    /\ queue[job_id] > 0
    /\ get_job(store, job_id) # None
    /\ queue' = [queue EXCEPT ![job_id] = @ - 1]
    /\ deliveries' = [deliveries EXCEPT ![job_id] = @ + 1]
    /\ worker' = [worker EXCEPT ![w] =
                    [pc |-> "begin", job_id |-> job_id, gen |-> GenStart]]
    /\ UNCHANGED <<store, uploads, issued, registry, settings, now, last_poll,
                   call>>

\* process_image runs up to the _load_metadata of its next update_job call,
\* or to the style lookup or the generator's next wait when no write is due
RaceLoad(w) ==
    LET me == worker[w]
        j == me.job_id
        loaded == store[j]
        kind == get_generator(settings.image_generator)
        e == resolve_error(registry["worker"], uploads, settings, store[j])
    IN  /\ me.pc \in {"begin", "resolve", "generate"}
        /\ worker' \in
              {[worker EXCEPT ![w] = next] : next \in
                 CASE me.pc = "begin" ->
                        {Saving(j, loaded, ProcessingWrite,
                                [me EXCEPT !.pc = "resolve"])}
                   [] me.pc = "resolve" ->
                        IF e # None
                        THEN {Saving(j, loaded, FailedWrite(The(e)), Idle)}
                        ELSE {[me EXCEPT !.pc = "generate"]}
                   [] OTHER ->
                        IF GenReturned(kind, me.gen)
                        THEN {Saving(j, loaded, CompletedWrite, Idle)}
                        ELSE {CASE o.type = "report" ->
                                     Saving(j, loaded, ProgressWrite(o.p),
                                            [me EXCEPT !.gen = o.gen])
                                [] o.type = "wait" -> [me EXCEPT !.gen = o.gen]
                                [] OTHER ->
                                     Saving(j, loaded,
                                            GenerationErrorWrite(o.error), Idle)
                              : o \in Outcomes(w)}}
        /\ UNCHANGED <<store, uploads, queue, deliveries, issued, registry,
                       settings, now, last_poll, call>>

\* update_job assigns and saves: the loaded metadata replaces the file
RaceSave(w) ==
    LET me == worker[w] IN
    /\ me.pc = "save"
    /\ store' = save_loaded(store, me.loaded, me.write, now)
    /\ worker' = [worker EXCEPT ![w] = me.then]
    /\ call' = [op |-> "_save_metadata", job_id |-> me.job_id,
                loaded |-> me.loaded, write |-> me.write,
                before |-> store[me.job_id], t |-> now]
    /\ UNCHANGED <<uploads, queue, deliveries, issued, registry, settings, now,
                   last_poll>>

\* The two workers that get hold of one identifier
RaceWorkers == {1, 2}

RaceNext ==
    \/ \E s \in StyleIds, i \in Images : SubmitAccepted(s, i) /\ UNCHANGED call
    \/ \E j \in JobIds : Redeliver(j)
    \/ \E w \in RaceWorkers, j \in JobIds : RaceTake(w, j)
    \/ \E w \in RaceWorkers : RaceLoad(w)
    \/ \E w \in RaceWorkers : RaceSave(w)

RaceSpec == ServiceInit /\ [][RaceNext]_vars

\* ------------------------------------------ the functions, called directly

\* How many answers of the inference endpoint a caller prepares
MaxResponses == 4

\* HuggingFaceGenerator._generate_with_text2img against prepared answers
CallGenerateWithText2Img(responses) ==
    /\ call' = [op |-> "_generate_with_text2img", responses |-> responses,
                result |-> generate_with_text2img(GenStart, responses)]
    /\ UNCHANGED <<store, uploads, queue, deliveries, issued, registry,
                   settings, worker, now, last_poll>>

\* Values of the IMAGE_GENERATOR setting: the three documented ones and
\* others an operator can write
GeneratorSettings ==
    {"stub", "huggingface", "real", "", "HuggingFace", "REAL", "replicate"}

\* Settings as the worker process can load them: a generator setting and
\* whether each API token is non-empty
WorkerSettings ==
    [image_generator : GeneratorSettings, replicate_api_token : BOOLEAN,
     huggingface_api_token : BOOLEAN]

\* Settings with nothing in the environment or in .env: the field defaults
SettingsDefaults ==
    [image_generator |-> "huggingface", replicate_api_token |-> FALSE,
     huggingface_api_token |-> FALSE]

\* get_generator under loaded settings: the class it instantiates
CallGetGenerator(conf) ==
    /\ call' = [op |-> "get_generator", conf |-> conf,
                image_generator |-> conf.image_generator,
                result |-> get_generator(conf.image_generator)]
    /\ UNCHANGED <<store, uploads, queue, deliveries, issued, registry,
                   settings, worker, now, last_poll>>

\* How many times a caller enqueues an identifier
MaxEnqueued == 1

\* JobService.enqueue_job called directly: the identifier is put on the
\* queue, whether or not a record exists for it
CallEnqueueJob(job_id) ==
    /\ queue[job_id] + deliveries[job_id] < MaxEnqueued
    /\ queue' = [queue EXCEPT ![job_id] = @ + 1]
    /\ call' = [op |-> "enqueue_job", job_id |-> job_id]
    /\ UNCHANGED <<store, uploads, deliveries, issued, registry, settings,
                   worker, now, last_poll>>

\* The widths and heights of the images handed to RealGenerator.generate
ImageDimensions ==
    {1, 100, 511, 512, 519, 520, 640, 641, 644, 805, 1077, 4000}

\* The size computation of RealGenerator.generate on an image of that size
CallSentDimensions(width, height) ==
    /\ call' = [op |-> "sent_dimensions", width |-> width, height |-> height,
                result |-> sent_dimensions(width, height)]
    /\ UNCHANGED <<store, uploads, queue, deliveries, issued, registry,
                   settings, worker, now, last_poll>>

\* How many answers of the generation service a caller prepares
MaxAnswers == 2

\* RealGenerator.generate from the call of replicate.run on, against prepared
\* answers
CallRealGenerate(answers) ==
    /\ call' = [op |-> "RealGenerator.generate", answers |-> answers,
                result |-> replicate_run_all(GenStart, answers),
                end |-> real_generate_end(replicate_run_all(GenStart, answers))]
    /\ UNCHANGED <<store, uploads, queue, deliveries, issued, registry,
                   settings, worker, now, last_poll>>

\* The input images handed to StubGenerator.generate
StubInputs ==
    {[pixels |-> "a portrait", mode |-> "RGBA", width |-> 300],
     [pixels |-> "a landscape", mode |-> "RGB", width |-> 900]}

\* The font files a host can have
HostFonts ==
    {{}, {"/usr/share/fonts/truetype/dejavu/DejaVuSans-Bold.ttf"}}

\* The step of a call whose code raises: 0 when none does, else the fifth
StubRaises == {0, 5}

\* StubGenerator.generate called twice on one host with the same input image
\* and the same style: each call with its own generator (simulate_delay),
\* its own output path and its own luck
CallStubGenerate(input, style, fonts, delays, second_job, raises) ==
    /\ call' = [op |-> "StubGenerator.generate", input |-> input,
                style |-> style, fonts |-> fonts, delays |-> delays,
                first |-> stub_generate(delays[1], input, style,
                             get_output_path(output_filename_of(1)), fonts,
                             raises[1]),
                second |-> stub_generate(delays[2], input, style,
                             get_output_path(output_filename_of(second_job)),
                             fonts, raises[2])]
    /\ UNCHANGED <<store, uploads, queue, deliveries, issued, registry,
                   settings, worker, now, last_poll>>

\* The presets callers register: the pipeline's and a second one per id
ServicePresets == Presets \cup {StylePreset(id, "replacement") : id \in StyleIds}

\* StyleRegistry.register on the API's registry, with the dict it found
CallRegister(style) ==
    /\ RegisterStyle("api", style)
    /\ call' = [op |-> "register", style |-> style, before |-> registry["api"]]

\* The uploads callers hand to validate_image_file
UploadNames ==
    {None, Some(<<>>), Some(<<"photo">>), Some(<<"", "png">>),
     Some(<<"photo", "">>), Some(<<"archive", "tar", "png">>)}
    \cup {Some(<<"photo", ext>>) :
             ext \in {"png", "PNG", "jpg", "Jpg", "jpeg", "webp", "gif", "txt"}}

UploadContentTypes ==
    {None} \cup {Some(m) : m \in {"image/png", "IMAGE/PNG", "image/jpeg",
                                   "Image/Jpeg", "image/webp", "image/gif",
                                   "text/plain"}}

UploadFiles ==
    {[filename |-> f, content_type |-> c] :
        f \in UploadNames, c \in UploadContentTypes}

\* validate_image_file on one upload: the ValueError raised, or None
CallValidateImageFile(file) ==
    /\ call' = [op |-> "validate_image_file", file |-> file,
                result |-> validate_image_file(file)]
    /\ UNCHANGED <<store, uploads, queue, deliveries, issued, registry,
                   settings, worker, now, last_poll>>

\* The answers prepared for the latest run of the request loop
PreparedResponses ==
    IF call.op = "_generate_with_text2img" THEN call.responses ELSE <<>>

\* The answers prepared for the latest run of RealGenerator.generate
PreparedAnswers ==
    IF call.op = "RealGenerator.generate" THEN call.answers ELSE <<>>

FunctionNext ==
    \/ \E w \in ImageDimensions, h \in ImageDimensions : CallSentDimensions(w, h)
    \/ \E a \in ReplicateAnswers :
          /\ Len(PreparedAnswers) < MaxAnswers
          /\ CallRealGenerate(Append(PreparedAnswers, a))
    \/ \E s \in ServicePresets : CallRegister(s)
    \/ \E f \in UploadFiles : CallValidateImageFile(f)
    \/ \E r \in HttpResponses :
          /\ Len(PreparedResponses) < MaxResponses
          /\ CallGenerateWithText2Img(Append(PreparedResponses, r))

FunctionSpec == ServiceInit /\ [][FunctionNext]_vars

\* workers/tasks.py called directly: get_generator under any settings,
\* process_image on an identifier a caller enqueued, and the generate() of
\* the StubGenerator twice in a row
TaskNext ==
    \/ \E conf \in WorkerSettings : CallGetGenerator(conf)
    \/ \E j \in JobIds : CallEnqueueJob(j)
    \/ \E w \in Workers, j \in JobIds : ProcessImageBegin(w, j)
    \/ \E input \in StubInputs, style \in ServicePresets, fonts \in HostFonts,
          delays \in BOOLEAN \X BOOLEAN, second_job \in 1..2,
          raises \in StubRaises \X StubRaises :
          CallStubGenerate(input, style, fonts, delays, second_job, raises)

TaskSpec == ServiceInit /\ [][TaskNext]_vars

\* ------------------------------------------------------------------ claims

\* The raw values report_progress is tried on reach this far outside [0,100]
ProgressMargin == 3

Rank(status) ==
    CASE status = PENDING -> 0 [] status = PROCESSING -> 1 [] OTHER -> 2

Terminal(status) == status \in {COMPLETED, FAILED}

Contains(str, token) == \E i \in 1..Len(str) : str[i] = token

Jobs == DOMAIN store

\* C1: while a job identifier has been delivered at most once, every write
\* to its record keeps or raises the status in the order Pending < Processing
\* < {Completed, Failed}; the record is created Pending and becomes Completed
\* or Failed only from Processing, also when the style or the input is missing.
C1_StatusOrder ==
    [][\A j \in JobIds :
          /\ (j \notin Jobs /\ j \in DOMAIN store') => store'[j].status = PENDING
          /\ (j \in Jobs /\ deliveries'[j] <= 1) =>
                /\ j \in DOMAIN store'
                /\ Rank(store[j].status) <= Rank(store'[j].status)
                /\ (Terminal(store'[j].status) /\ ~Terminal(store[j].status))
                      => store[j].status = PROCESSING]_vars

\* C1 witness: a job delivered once has failed on a style the worker lacks
C1_Witness ==
    \E j \in Jobs :
        /\ deliveries[j] = 1 /\ queue[j] = 0
        /\ store[j].status = FAILED
        /\ store[j].error # None
        /\ Contains(The(store[j].error), "Style not found: ")

\* C2: once a record is Completed or Failed no step changes any of its
\* fields; a second delivery of its identifier is a no-op on the record.
C2_TerminalFrozen ==
    [][\A j \in Jobs :
          Terminal(store[j].status) => (j \in DOMAIN store' /\ store'[j] = store[j])]_vars

\* C3: in every reachable state a record's output_filename is set if and
\* only if its status is Completed.
C3_OutputIffCompleted ==
    \A j \in Jobs :
        (store[j].output_filename # None) <=> (store[j].status = COMPLETED)

\* C4: in every reachable state a record's error is set if and only if its
\* status is Failed.
C4_ErrorIffFailed ==
    \A j \in Jobs : (store[j].error # None) <=> (store[j].status = FAILED)

\* C5: every record's progress is an integer in [0,100], and report_progress
\* hands the callback a value in [0,100] for every raw value, unchanged when
\* the raw value is in range.
C5_ProgressInRange ==
    /\ \A j \in Jobs : store[j].progress \in 0..100
    /\ \A p \in (0 - ProgressMargin)..(100 + ProgressMargin) :
          /\ report_progress(p) \in 0..100
          /\ p \in 0..100 => report_progress(p) = p

\* C5 witness: a record holds a value that a generator reported
C5_Witness ==
    \E j \in Jobs : store[j].status = PROCESSING /\ store[j].progress = 75

C7_FailedKeepsProgress ==
    [][\A j \in Jobs :
          (j \in DOMAIN store' /\ store'[j].status = FAILED
              /\ store[j].status # FAILED) =>
             /\ store'[j].progress = store[j].progress
             /\ \A w \in Workers :
                   (worker[w].job_id = j
                       /\ (worker[w].pc = "resolve" \/ worker[w].gen.pos = 1))
                   => store'[j].progress = 5]_vars

\* C7 witness: a record has failed after the generator had reported progress
C7_Witness ==
    \E j \in Jobs : store[j].status = FAILED /\ store[j].progress >= 10

\* C8: in the first pass over a job, the write that follows the generator's
\* return leaves the record Completed with progress 100, output_filename
\* '<job_id>-output.png' and no error.
C8_SuccessfulPass ==
    [][\A w \in Workers :
          LET j == worker[w].job_id IN
          (/\ worker[w].pc = "generate"
           /\ GenReturned(get_generator(settings.image_generator), worker[w].gen)
           /\ deliveries[j] = 1
           /\ store' # store) =>
             /\ worker'[w].pc = "idle"
             /\ store'[j].status = COMPLETED
             /\ store'[j].progress = 100
             /\ store'[j].output_filename = Some(<<ToString(j), "-output.png">>)
             /\ store'[j].error = None]_vars

\* C8 witness: a job is Completed after one pass, with no error
C8_Witness ==
    \E j \in Jobs :
        /\ deliveries[j] = 1
        /\ store[j].status = COMPLETED
        /\ store[j].error = None

\* A step of worker w that leaves the place where process_image resolves the
\* style, the input path and the generator, with the input file missing
LeavesResolveWithoutInput(w) ==
    /\ worker[w].pc = "resolve"
    /\ worker'[w].pc # "resolve"
    /\ ~upload_exists(uploads, store[worker[w].job_id].input_filename)

\* Worker w has not called a generator and its record, if written, is Failed
\* with a file-not-found error and the progress it had
FailedOnMissingInput(w) ==
    LET j == worker[w].job_id IN
    /\ worker'[w].pc = "idle"
    /\ store' # store =>
          /\ store'[j].status = FAILED
          /\ store'[j].error # None
          /\ Contains(The(store'[j].error), "Input file not found: ")
          /\ store'[j].progress = store[j].progress

\* C9, as claimed: whenever the input file is missing when the worker
\* resolves it, no generator is called and the record is finalized as Failed
\* with a file-not-found error and its progress unchanged.
C9_MissingInputAlways ==
    [][\A w \in Workers :
          LeavesResolveWithoutInput(w) => FailedOnMissingInput(w)]_vars

\* C9, amended: the same, provided the record's style_id is registered in the
\* worker's registry (an unknown style is reported first, as Style not found).
C9_MissingInput ==
    [][\A w \in Workers :
          (/\ LeavesResolveWithoutInput(w)
           /\ get_style(registry["worker"], store[worker[w].job_id].style_id) # None)
          => FailedOnMissingInput(w)]_vars

\* C9 witness: a record has failed on its missing input with progress 5
C9_Witness ==
    \E j \in Jobs :
        /\ store[j].status = FAILED
        /\ store[j].progress = 5
        /\ store[j].error # None
        /\ The(store[j].error)[1] = "Processing failed: "
        /\ Contains(The(store[j].error), "Input file not found: ")

\* C10: a get_job answer about a record that has not been written since
\* equals what get_job answers now, updated_at included: get_job itself writes
\* nothing.
C10_PollIdempotent ==
    last_poll.job_id # 0 =>
        last_poll.response = get_job(store, last_poll.job_id)

\* C10 witness: an answer is held about a record last written before now
C10_Witness ==
    /\ last_poll.job_id # 0
    /\ last_poll.response # None
    /\ The(last_poll.response).updated_at < now

\* The step is the update_job call that `call` records afterwards
IsUpdateJobCall ==
    /\ call'.op = "update_job"
    /\ CallUpdateJob(call'.job_id, call'.status, call'.progress,
                     call'.output_filename, call'.error)

\* The step is the get_job call that `call` records afterwards
IsGetJobCall == call'.op = "get_job" /\ CallGetJob(call'.job_id)

\* C11: get_job and update_job on an identifier that has no record return
\* None and leave the store as it was; no record appears for the identifier.
C11_NotFound ==
    [][((IsGetJobCall \/ IsUpdateJobCall) /\ call'.job_id \notin DOMAIN store) =>
          /\ call'.result = None
          /\ store' = store
          /\ call'.job_id \notin DOMAIN store']_vars

\* C11 witness: update_job has answered None for an identifier without a
\* record while another record exists
C11_Witness ==
    /\ call.op = "update_job"
    /\ call.job_id \notin DOMAIN store
    /\ call.result = None
    /\ store # <<>>

\* C12: a POST /jobs whose style_id is not in the API's style registry is
\* answered 400 and changes nothing: no upload is stored, no record is
\* created, nothing is enqueued, no job identifier is drawn.
C12_UnknownStyleRejected ==
    [][(/\ call'.op = "POST /jobs"
        /\ call'.style_id \notin DOMAIN registry["api"]
        /\ \E i \in Images : CallPostJobs(call'.style_id, i)) =>
          /\ call'.status_code = 400
          /\ UNCHANGED <<store, uploads, queue, issued>>]_vars

\* C12 witness: a submission with an unregistered style has been refused for
\* its style while nothing is stored
C12_Witness ==
    /\ call.op = "POST /jobs"
    /\ call.status_code = 400
    /\ call.style_id \notin DOMAIN registry["api"]
    /\ call.detail[1] = "Style '"
    /\ store = <<>> /\ uploads = {} /\ issued = 0

\* C13: when the endpoint answers 503 to three requests in a row, the
\* request loop ends after exactly three requests and generate fails with a
\* GenerationError; a fourth answer is never asked for.
C13_WarmupRetryBound ==
    (/\ call.op = "_generate_with_text2img"
     /\ Len(call.responses) >= max_retries
     /\ \A k \in 1..max_retries : call.responses[k] = "503") =>
        /\ call.result.requests = max_retries
        /\ call.result.end.type = "raise"
        /\ call.result.end.error =
              <<"HuggingFace generation failed: ",
                "Failed to generate image from Hugging Face API">>

\* C13 witness: the loop has run against an endpoint that only answers 503
C13_Witness ==
    /\ call.op = "_generate_with_text2img"
    /\ Len(call.responses) = max_retries + 1
    /\ \A k \in 1..(max_retries + 1) : call.responses[k] = "503"
    /\ call.result.requests = max_retries

\* C14: create_job for an identifier that already has a record fails (it
\* returns no record) and leaves the existing record as it was.
C14_CreateFailsOnDuplicate ==
    [][\A j \in JobIds, s \in StyleIds :
          (j \in DOMAIN store /\ CallCreateJob(j, s)) =>
             /\ call'.result = None
             /\ store' = store]_vars

\* The fields of a record that no update may change
Immutable(metadata) ==
    <<metadata.job_id, metadata.style_id, metadata.input_filename,
      metadata.created_at>>

\* The step is a create_job call, made directly or by POST /jobs
IsCreateJobCall ==
    \/ call'.op = "create_job"
          /\ \E j \in JobIds, s \in StyleIds : CallCreateJob(j, s)
    \/ call'.op = "POST /jobs"
          /\ \E i \in Images : CallPostJobs(call'.style_id, i)

\* C15: an update_job call on an existing record sets each of status,
\* progress, output_filename and error to the argument when one is supplied
\* and leaves it otherwise, sets updated_at to the time of the call, and
\* leaves every other record alone; job_id, style_id, input_filename and
\* created_at of a record change in no step other than a create_job call.
C15_UpdateFrame ==
    [][/\ (IsUpdateJobCall /\ call'.job_id \in DOMAIN store) =>
            LET j == call'.job_id
                old == store[j]
                new == store'[j]
            IN  /\ DOMAIN store' = DOMAIN store
                /\ new.status = IF call'.status = None THEN old.status
                                ELSE The(call'.status)
                /\ new.progress = IF call'.progress = None THEN old.progress
                                  ELSE The(call'.progress)
                /\ new.output_filename =
                      IF call'.output_filename = None THEN old.output_filename
                      ELSE call'.output_filename
                /\ new.error = IF call'.error = None THEN old.error
                               ELSE call'.error
                /\ new.updated_at = now
                /\ Immutable(new) = Immutable(old)
                /\ \A k \in DOMAIN store \ {j} : store'[k] = store[k]
       /\ ~IsCreateJobCall =>
            \A j \in DOMAIN store :
                j \in DOMAIN store' /\ Immutable(store'[j]) = Immutable(store[j])
      ]_vars

\* C15 witness: an update that supplied only a status was applied, after the
\* time of creation, to a record whose output_filename and error were set
C15_Witness ==
    /\ call.op = "update_job"
    /\ call.status # None /\ call.progress = None
    /\ call.output_filename = None /\ call.error = None
    /\ call.job_id \in DOMAIN store
    /\ store[call.job_id].output_filename # None
    /\ store[call.job_id].error # None
    /\ store[call.job_id].progress = 40
    /\ store[call.job_id].updated_at > store[call.job_id].created_at

\* The record of job j is as create_job builds it at time t
FreshRecord(metadata, j, t) ==
    /\ metadata.job_id = j
    /\ metadata.status = PENDING
    /\ metadata.progress = 0
    /\ metadata.output_filename = None
    /\ metadata.error = None
    /\ metadata.created_at = t
    /\ metadata.updated_at = metadata.created_at

\* C16: after a create_job call, made directly or by an accepted POST /jobs,
\* the store holds for the identifier a record with status Pending, progress
\* 0, no output_filename, no error and updated_at equal to created_at, the
\* time of the call; a direct call returns that record.
C16_CreatedRecord ==
    [][/\ (/\ call'.op = "create_job"
           /\ \E s \in StyleIds : CallCreateJob(call'.job_id, s)) =>
            /\ call'.job_id \in DOMAIN store'
            /\ FreshRecord(store'[call'.job_id], call'.job_id, now)
            /\ call'.result = Some(metadata_to_response(store'[call'.job_id]))
            /\ The(call'.result).status = PENDING
            /\ The(call'.result).progress = 0
       /\ (/\ call'.op = "POST /jobs"
           /\ call'.status_code = 200
           /\ \E i \in Images : CallPostJobs(call'.style_id, i)) =>
            /\ issued' \in DOMAIN store'
            /\ FreshRecord(store'[issued'], issued', now)
            /\ store'[issued'].style_id = call'.style_id
      ]_vars

\* C16 witness: create_job has just returned the record it stored, at a time
\* after the start
C16_Witness ==
    /\ call.op = "create_job"
    /\ call.job_id \in DOMAIN store
    /\ call.result = Some(metadata_to_response(store[call.job_id]))
    /\ store[call.job_id].status = PENDING
    /\ store[call.job_id].created_at = now
    /\ now > 0

\* Worker w ends its pass by returning from process_image: it is not killed
\* and no error leaves the function (in both of those nothing is written)
PassReturns(w) ==
    /\ worker[w].pc # "idle"
    /\ worker'[w].pc = "idle"
    /\ ~Cutoff(w)

\* The step of worker w handles a failure: an exception of the resolve stage
\* or one that generate() raised
PassFails(w) ==
    \/ ProcessImageResolve(w)
    \/ ProcessImageGenerationError(w)
    \/ ProcessImageCallbackError(w)

\* C17: the step in which a worker pass returns leaves the job's record
\* Completed or Failed, never Processing; it is Failed with a non-empty error
\* string whenever the pass ends on a failure (unknown style, missing input,
\* generator construction, GenerationError or another exception).
C17_PassEndsTerminal ==
    [][\A w \in Workers :
          PassReturns(w) =>
             LET j == worker[w].job_id IN
             /\ Terminal(store'[j].status)
             /\ store'[j].status = FAILED =>
                   /\ store'[j].error # None
                   /\ Len(The(store'[j].error)) > 0
                   /\ \A k \in 1..Len(The(store'[j].error)) :
                         The(store'[j].error)[k] # ""
             /\ PassFails(w) => store'[j].status = FAILED]_vars

\* C17 witness: a pass has ended on the error of constructing the generator
\* and its record is Failed with that message
C17_Witness ==
    \E j \in Jobs :
        /\ \A w \in Workers : worker[w].job_id # j
        /\ store[j].status = FAILED
        /\ store[j].error # None
        /\ Contains(The(store[j].error),
                    "REPLICATE_API_TOKEN environment variable is required. ")

\* C18: a step in which a Job Service operation raises an error of the store
\* or the queue ends with that error leaving the caller: the route writes
\* nothing more (no record after a failed create_job, nothing enqueued after
\* a failed enqueue_job), and the worker pass ends without a write, so an
\* error raised inside the progress callback is not recorded as a failed
\* generation.
C18_InfrastructureErrorsPropagate ==
    [][/\ \A s \in StyleIds, i \in Images :
            /\ SubmitCreateFails(s, i) => UNCHANGED <<store, queue>>
            /\ SubmitEnqueueFails(s, i) => UNCHANGED queue
       /\ \A w \in Workers :
            /\ (\E j \in JobIds : ProcessImageBeginRaises(w, j)) =>
                  UNCHANGED <<store, worker>>
            /\ ProcessImageCallbackError(w) => UNCHANGED store
      ]_vars

\* The style ids callers ask the registry about; one is never registered
ProbedStyleIds == StyleIds \cup {"nonexistent-style"}

\* C19: right after register(s), get_style(s.id) returns s (in place of a
\* preset registered under that id before) and style_exists(s.id) is true,
\* get_style_ids has gained s.id and nothing else, and the answer has changed
\* for no other id. In every state get_style is None and style_exists false
\* for exactly the ids get_style_ids lacks, get_all_styles lists exactly the
\* presets get_style returns, the built-in defaults are listed, and an id
\* that was never registered is unknown.
C19_RegistryLookup ==
    LET styles == registry["api"] IN
    /\ \A id \in ProbedStyleIds :
          /\ style_exists(styles, id) <=> id \in get_style_ids(styles)
          /\ style_exists(styles, id) <=> get_style(styles, id) # None
          /\ get_style(styles, id) # None =>
                /\ The(get_style(styles, id)).id = id
                /\ The(get_style(styles, id)) \in get_all_styles(styles)
    /\ \A s \in get_all_styles(styles) : get_style(styles, s.id) = Some(s)
    /\ DefaultStyles \subseteq get_style_ids(styles)
    /\ get_style(styles, "nonexistent-style") = None
    /\ ~style_exists(styles, "nonexistent-style")
    /\ call.op = "register" =>
          /\ get_style(styles, call.style.id) = Some(call.style)
          /\ style_exists(styles, call.style.id)
          /\ get_style_ids(styles) = get_style_ids(call.before) \cup {call.style.id}
          /\ \A id \in ProbedStyleIds \ {call.style.id} :
                get_style(styles, id) = get_style(call.before, id)

\* C19 witness: register has just replaced a built-in preset, after a new id
\* was added
C19_Witness ==
    /\ call.op = "register"
    /\ get_style(call.before, "classic-tuxedo")
          = Some(StylePreset("classic-tuxedo", "original"))
    /\ get_style(registry["api"], "classic-tuxedo")
          = Some(StylePreset("classic-tuxedo", "replacement"))
    /\ style_exists(registry["api"], "custom")
    /\ Cardinality(get_all_styles(registry["api"])) = 2

\* The uploads whose name carries an allowed extension in any letter case,
\* and the content types that are allowed in any letter case
NamesAllowed ==
    {Some(<<"archive", "tar", "png">>)}
    \cup {Some(<<"photo", ext>>) : ext \in {"png", "PNG", "jpg", "Jpg", "jpeg", "webp"}}

ContentTypesAllowed ==
    {Some(m) : m \in {"image/png", "IMAGE/PNG", "image/jpeg", "Image/Jpeg",
                      "image/webp"}}

C21_OversizedRejected ==
    [][\A s \in StyleIds, i \in Images :
          (/\ i.size > max_file_size_bytes
           /\ call'.op = "POST /jobs"
           /\ call'.status_code # 500
           /\ CallPostJobs(s, i)) =>
             /\ call'.status_code = 400
             /\ UNCHANGED <<uploads, store, queue>>]_vars

\* Worker w is about to enter generate() and the job's input file is gone:
\* validate_input raises
InputInvalidAtGenerate(w) ==
    /\ worker[w].pc = "generate"
    /\ worker[w].gen = GenStart
    /\ validate_input(uploads, store[worker[w].job_id].input_filename) # None

\* C22: when generate() is entered with an input path that does not exist,
\* the generator of every variant reports no progress and the error that
\* leaves it is validate_input's own, not a GenerationError: process_image
\* handles it in `except Exception` and writes 'Processing failed: ' followed
\* by validate_input's message.
C22_PreconditionErrorNotWrapped ==
    [][\A w \in Workers :
          (InputInvalidAtGenerate(w) /\ PassReturns(w)) =>
             store' = mark_failed(
                        store, worker[w].job_id,
                        The(validate_input(
                              uploads,
                              store[worker[w].job_id].input_filename)),
                        now)]_vars

\* The answers that are neither success, model loading nor rate limit: an
\* HTTP error status or a connection error ("error"), a timeout
TransportErrors == {"error", "timeout"}

\* C23: when the endpoint answers its first three requests with errors other
\* than model loading and rate limit, every one of them is retried: the loop
\* makes three requests and only then generate fails with a GenerationError.
C23_TransportErrorsRetried ==
    (/\ call.op = "_generate_with_text2img"
     /\ Len(call.responses) >= max_retries
     /\ \A k \in 1..max_retries : call.responses[k] \in TransportErrors) =>
        /\ call.result.requests = max_retries
        /\ call.result.end.type = "raise"

\* The answers that end the request loop whenever they come: success, and an
\* error that raise_for_status or the client raises
EndsLoop == {"200", "error"}

\* The request after which the loop is over, given at least max_retries
\* answers: the first that gets an ending answer, else the last allowed
LastRequest(responses) ==
    IF \E k \in 1..max_retries : responses[k] \in EndsLoop
    THEN CHOOSE k \in 1..max_retries :
            /\ responses[k] \in EndsLoop
            /\ \A i \in 1..(k - 1) : responses[i] \notin EndsLoop
    ELSE max_retries

\* C24: whatever the endpoint answers, the request loop makes at most three
\* requests; every answer, 429 and 503 included, uses up one of them, and the
\* loop ends either with the image of a 200 answer (generate goes on to
\* return the output path) or with a GenerationError.
C24_RequestLoopBounded ==
    (/\ call.op = "_generate_with_text2img"
     /\ Len(call.responses) >= max_retries) =>
        LET n == LastRequest(call.responses)
            end == call.result.end
        IN  /\ call.result.requests = n
            /\ n <= max_retries
            /\ IF call.responses[n] = "200"
               THEN end.type = "report" /\ end.gen.pos = GenStart.pos + 1
               ELSE end.type = "raise"

\* C24 witness: three rate-limit answers used up the three requests, and the
\* success prepared as fourth answer was never asked for
C24_Witness ==
    /\ call.op = "_generate_with_text2img"
    /\ call.responses = <<"429", "429", "429", "200">>
    /\ call.result.requests = max_retries
    /\ call.result.end.type = "raise"

\* The answers of the generation service with which generate cannot succeed
FailingAnswers == ReplicateAnswers \ {"output"}

\* C25: RealGenerator.generate calls the generation service once at most and
\* never a second time; when that call ends in a transport error, an error
\* the service reports, or an empty output, generate fails with a
\* GenerationError after that one call.
C25_SingleCallNoRetry ==
    (call.op = "RealGenerator.generate") =>
        /\ call.result.calls <= 1
        /\ call.answers[1] \in FailingAnswers => call.end.type = "raise"
        /\ call.answers[1] = "output" => call.end.type = "wait"

\* C25 witness: the service reported an error and had an output ready for a
\* second call, which was never made
C25_Witness ==
    /\ call.op = "RealGenerator.generate"
    /\ call.answers = <<"replicate error", "output">>
    /\ call.result.calls = 1
    /\ call.end = Raised(<<"Replicate API error: ", "error">>)

\* C26: whatever the positive width and height of the input image, the width
\* and the height RealGenerator passes to replicate.run are multiples of 8
\* between 512 and MAX_DIMENSION (640).
C26_SentDimensions ==
    (call.op = "sent_dimensions") =>
        /\ call.result # {}
        /\ \A size \in call.result : \A k \in 1..2 :
              /\ size[k] % 8 = 0
              /\ 512 <= size[k]
              /\ size[k] <= MAX_DIMENSION

\* C26 witness: a 100 x 4000 image is scaled to 16 x 640 (or 639), and
\* 512 x 640 (or 512 x 632) is sent
C26_Witness ==
    /\ call.op = "sent_dimensions"
    /\ call.width = 100 /\ call.height = 4000
    /\ call.result = {<<512, 640>>, <<512, 632>>}

\* C27: a worker that takes an identifier without a record from the queue
\* returns at once: the store is left as it was (no record is created, no
\* status written), the worker is idle again, so no generator runs, and the
\* identifier is consumed from the queue, not put back.
C27_UnknownJobDropped ==
    [][\A w \in Workers, j \in JobIds :
          (/\ j \notin DOMAIN store
           /\ deliveries'[j] > deliveries[j]
           /\ ProcessImageBegin(w, j)) =>
             /\ store' = store
             /\ worker' = worker
             /\ queue'[j] = queue[j] - 1
             /\ UNCHANGED <<uploads, last_poll>>]_vars

\* C27 witness: the queue handed an identifier without a record to a worker;
\* nothing is stored, nothing is queued and every worker is idle
C27_Witness ==
    /\ \E j \in JobIds :
          /\ deliveries[j] = 1
          /\ queue[j] = 0
          /\ j \notin DOMAIN store
    /\ \A w \in Workers : worker[w] = Idle

\* Worker w is at the style lookup and its registry has no entry for the
\* record's style_id
StyleMissingAtResolve(w) ==
    /\ worker[w].pc = "resolve"
    /\ store[worker[w].job_id].style_id \notin DOMAIN registry["worker"]

\* C28: when the worker's registry has no entry for the record's style_id,
\* the record is Processing with progress 5 at the lookup, and the pass ends
\* there: the worker is idle again without having entered generate(), and
\* the record is Failed with 'Processing failed: Style not found: <style_id>'
\* and progress still 5.
C28_StyleMissing ==
    [][\A w \in Workers :
          LET j == worker[w].job_id IN
          (StyleMissingAtResolve(w) /\ worker'[w] # worker[w] /\ ~Cutoff(w)) =>
             /\ store[j].status = PROCESSING
             /\ store[j].progress = 5
             /\ worker'[w] = Idle
             /\ store'[j].status = FAILED
             /\ store'[j].progress = 5
             /\ store'[j].error =
                   Some(<<"Processing failed: ", "Style not found: ",
                          store[j].style_id>>)]_vars

\* C28 witness: a record has failed on its missing style with progress 5
C28_Witness ==
    \E j \in Jobs :
        /\ store[j].status = FAILED
        /\ store[j].progress = 5
        /\ store[j].style_id \notin DOMAIN registry["worker"]
        /\ store[j].error =
              Some(<<"Processing failed: ", "Style not found: ", store[j].style_id>>)

\* The fields of a record that a progress write leaves alone
BesidesProgress(metadata) ==
    [job_id |-> metadata.job_id, status |-> metadata.status,
     style_id |-> metadata.style_id,
     input_filename |-> metadata.input_filename,
     output_filename |-> metadata.output_filename, error |-> metadata.error,
     created_at |-> metadata.created_at]

\* Worker w takes a step inside generate(): a progress report or a wait
GeneratorStep(w) ==
    /\ worker[w].pc = "generate"
    /\ worker'[w].pc = "generate"
    /\ worker'[w] # worker[w]

ProgressWritten(j, p) ==
    /\ store'[j].progress = p
    /\ store'[j].updated_at = now

\* C30: every progress report of generate() is written to the record when it
\* is made, one write per report: the record then holds the reported value
\* and the time of the report, also when the value is the one already stored
\* (the second 50 of two model-loading answers); a step without a report
\* writes nothing.
C30_EveryReportWritten ==
    [][\A w \in Workers :
          LET j == worker[w].job_id
              g == worker[w].gen
              kind == get_generator(settings.image_generator)
              step == GenScript(kind)[g.pos]
          IN  GeneratorStep(w) =>
                /\ step.kind = "report" =>
                      ProgressWritten(j, report_progress(step.p))
                /\ (step.kind = "request" /\ kind = "real") => store' = store
                /\ (step.kind = "request" /\ kind = "huggingface") =>
                      IF worker'[w].gen.pos > g.pos
                      THEN ProgressWritten(j, 80)
                      ELSE store' = store \/ ProgressWritten(j, 50)
                /\ ProcessImageProgress(w) =>
                      \E o \in Outcomes(w) :
                          /\ o.type = "report"
                          /\ o.gen = worker'[w].gen
                          /\ ProgressWritten(j, o.p)]_vars

\* C30 witness: the endpoint has answered two requests and the record holds
\* the 50 of a model-loading answer, written at the current time, later than
\* the record's creation
C30_Witness ==
    \E w \in Workers :
        /\ worker[w].pc = "generate"
        /\ worker[w].gen.attempt = 2
        /\ store[worker[w].job_id].progress = 50
        /\ store[worker[w].job_id].updated_at = now
        /\ now > store[worker[w].job_id].created_at

\* The generator of worker w has moved on in its script, or made one more
\* request at the same place
GeneratorAdvances(w) ==
    \/ worker'[w].gen.pos > worker[w].gen.pos
    \/ /\ worker'[w].gen.pos = worker[w].gen.pos
       /\ worker'[w].gen.attempt > worker[w].gen.attempt

\* C31: the writes of one worker pass come one per step in the order of
\* process_image: the step that starts the pass writes Processing with
\* progress 5 and nothing was written for the pass before it; the steps
\* inside the pass write progress only, the generator moving forward through
\* its reports, and leave the status Processing; the step in which the pass
\* returns makes the one terminal write; and a record changes only in a step
\* of a worker that is in a pass on it, so nothing is written after that.
C31_WriteOrder ==
    [][/\ \A w \in Workers :
            LET j == IF worker[w].pc = "idle" THEN worker'[w].job_id
                     ELSE worker[w].job_id
            IN  /\ (worker[w].pc = "idle" /\ worker'[w].pc # "idle") =>
                      /\ store'[j].status = PROCESSING
                      /\ store'[j].progress = 5
                      /\ worker'[w].gen = GenStart
                /\ (worker[w].pc # "idle" /\ worker'[w].pc # "idle") =>
                      /\ store[j].status = PROCESSING
                      /\ store'[j].status = PROCESSING
                      /\ store' # store =>
                            /\ GeneratorStep(w)
                            /\ GeneratorAdvances(w)
                            /\ BesidesProgress(store'[j]) = BesidesProgress(store[j])
                /\ PassReturns(w) =>
                      /\ store[j].status = PROCESSING
                      /\ Terminal(store'[j].status)
       /\ \A j \in Jobs :
            (j \in DOMAIN store' /\ store'[j] # store[j]) =>
               \E w \in Workers :
                   /\ worker'[w] # worker[w]
                   /\ j \in {worker[w].job_id, worker'[w].job_id}]_vars

\* C31 witness: a pass has gone through the Processing write and progress
\* reports to the Completed write, and its worker is idle again
C31_Witness ==
    \E j \in Jobs :
        /\ deliveries[j] = 1
        /\ store[j].status = COMPLETED
        /\ store[j].progress = 100
        /\ \A w \in Workers : worker[w] = Idle

\* C32: update_job saves the metadata it loaded with its own arguments
\* assigned, and nothing of what the store holds at the time of the save:
\* with two workers in a pass on one identifier, a progress write loaded
\* while the record was Processing and saved after the other worker's
\* Completed write puts the record back to Processing, with the
\* output_filename that was loaded.
C32_LostUpdate ==
    (call.op = "_save_metadata") =>
        LET j == call.job_id IN
        /\ store[j] =
              apply_write(j :> call.loaded, j, call.write, call.t)[j]
        /\ (/\ call.before.status = COMPLETED
            /\ call.loaded.status = PROCESSING
            /\ call.write.kind = "progress") =>
               /\ store[j].status = PROCESSING
               /\ store[j].output_filename = call.loaded.output_filename
               /\ store[j].progress = call.write.p

\* C32 witness: a progress write has replaced a Completed record by the
\* Processing record its worker had loaded before the completion
C32_Witness ==
    /\ call.op = "_save_metadata"
    /\ call.write.kind = "progress"
    /\ call.before.status = COMPLETED
    /\ call.before.output_filename # None
    /\ store[call.job_id].status = PROCESSING
    /\ store[call.job_id].progress < 100
    /\ store[call.job_id].output_filename = None

\* The record of job j is Processing and no worker is in a pass on it: the
\* pass that wrote Processing was cut off before its terminal write
LeftInProcessing(j) ==
    /\ j \in Jobs
    /\ store[j].status = PROCESSING
    /\ ~Busy(j)

\* C33: once a pass has been cut off between its Processing write and its
\* terminal write, every step that is not a new delivery of the identifier
\* leaves the record exactly as it is, polls, the clock, the queue's
\* bookkeeping and the other workers included: without a new delivery the
\* record stays Processing for ever.
C33_CutOffStaysProcessing ==
    [][\A j \in JobIds :
          (LeftInProcessing(j) /\ deliveries'[j] = deliveries[j]) =>
             /\ j \in DOMAIN store'
             /\ store'[j] = store[j]
             /\ LeftInProcessing(j)']_vars

\* C33 witness: a pass was cut off after reporting progress, the identifier
\* is not queued again, time has passed and a client has polled the record,
\* which is still Processing
C33_Witness ==
    \E j \in JobIds :
        /\ LeftInProcessing(j)
        /\ queue[j] = 0
        /\ store[j].progress >= 10
        /\ now > store[j].updated_at
        /\ last_poll.job_id = j
        /\ last_poll.response # None
        /\ The(last_poll.response).status = PROCESSING
        /\ The(last_poll.response).updated_at = store[j].updated_at

\* C34: the generator get_generator builds is decided by the value of the
\* image_generator setting alone: HuggingFaceGenerator exactly for
\* 'huggingface', RealGenerator exactly for 'real', StubGenerator for every
\* other value; the store, the queue and the registry have no part in it.
C34_GeneratorBySetting ==
    (call.op = "get_generator") =>
        /\ call.result \in Generators
        /\ call.result = "huggingface" <=> call.image_generator = "huggingface"
        /\ call.result = "real" <=> call.image_generator = "real"
        /\ call.result = "stub" <=>
              call.image_generator \notin {"huggingface", "real"}

\* C34 witness: a setting that differs from 'huggingface' by its case only
\* has selected the StubGenerator
C34_Witness ==
    /\ call.op = "get_generator"
    /\ call.image_generator = "HuggingFace"
    /\ call.result = "stub"

\* C35: with no API token configured and the image_generator setting at its
\* default, the generator the worker builds is the StubGenerator.
C35_DefaultIsStub ==
    (call.op = "get_generator" /\ call.conf = SettingsDefaults) =>
        call.result = "stub"

\* C36: while an identifier has been delivered to a worker at most once, no
\* step lowers the progress stored in its record: 0 at creation, 5 at the
\* Processing write, the reports of the configured generator in their order
\* (for HuggingFaceGenerator whichever retries the request loop took), 100 at
\* the Completed write, and untouched by a Failed write.
C36_ProgressNeverDecreases ==
    [][\A j \in Jobs :
          deliveries'[j] <= 1 =>
              /\ j \in DOMAIN store'
              /\ store'[j].progress >= store[j].progress]_vars

\* C36 witness: a record at 50 or more in the single pass on its identifier,
\* under a HuggingFaceGenerator whose request loop has retried
C36_Witness ==
    \E j \in Jobs : \E w \in Workers :
        /\ deliveries[j] = 1
        /\ settings.image_generator = "huggingface"
        /\ worker[w].job_id = j
        /\ worker[w].gen.attempt > 0
        /\ store[j].status = PROCESSING
        /\ store[j].progress >= 50

WrapPrefixes ==
    {"Stub generation failed: ", "HuggingFace generation failed: ",
     "Generation failed: ", "Replicate API error: "}

\* C38: whenever a pass writes its record as Failed, the error stored begins
\* with 'Processing failed: ' exactly when the pass had not entered
\* generate() (unknown style, missing input, generator not constructed);
\* when the pass was inside generate(), a failing progress callback
\* included, the error is the GenerationError's message, which begins with
\* the generator's own wrapping text.
C38_ErrorPrefixTellsOrigin ==
    [][\A w \in Workers :
          LET j == worker[w].job_id
          IN  (/\ worker'[w] # worker[w]
               /\ j \in Jobs
               /\ store'[j] # store[j]
               /\ store'[j].status = FAILED) =>
                  /\ store'[j].error # None
                  /\ Head(The(store'[j].error)) = "Processing failed: " <=>
                        worker[w].pc # "generate"
                  /\ worker[w].pc = "generate" =>
                        Head(The(store'[j].error)) \in WrapPrefixes]_vars

\* C38 witness: a record failed by a progress callback that raised inside
\* generate(), the error wrapped by the generator
C38_Witness ==
    \E j \in Jobs :
        /\ store[j].status = FAILED
        /\ store[j].error =
              Some(GenPrefix(get_generator(settings.image_generator))
                       \o InfrastructureError)

\* C39: a submission saves the upload, then creates the Pending record, then
\* enqueues the identifier once. So an identifier that is on the queue or
\* was delivered has a record, and a delivery finds it; the step that
\* creates a record has its upload stored and enqueues the identifier at
\* most once (not at all when enqueue_job raises); an identifier is first
\* enqueued in the step that creates its record; and a submission that
\* stored no upload creates no record and enqueues nothing.
C39_SubmissionOrder ==
    [][\A j \in JobIds :
          /\ (queue[j] + deliveries[j] > 0) => j \in DOMAIN store
          /\ (queue'[j] + deliveries'[j] > 0) => j \in DOMAIN store'
          /\ (deliveries'[j] > deliveries[j]) => get_job(store, j) # None
          /\ (j \notin DOMAIN store /\ j \in DOMAIN store') =>
                /\ store'[j].status = PENDING
                /\ store'[j].input_filename \in uploads'
                /\ queue[j] = 0
                /\ queue'[j] \in {0, 1}
          /\ (queue'[j] > queue[j] /\ deliveries[j] = 0) =>
                /\ j \notin DOMAIN store
                /\ j \in DOMAIN store'
                /\ queue'[j] = 1
          /\ (issued' = j /\ issued # j /\ uploads' = uploads) =>
                /\ store' = store
                /\ queue' = queue]_vars

\* C39 witness: a submitted identifier was delivered once and the worker
\* found its record, with the upload the submission stored
C39_Witness ==
    \E j \in Jobs :
        /\ deliveries[j] = 1
        /\ queue[j] = 0
        /\ store[j].status = PROCESSING
        /\ store[j].input_filename \in uploads
        /\ \E w \in Workers : worker[w].job_id = j

\* C40: an update_job call never clears output_filename or error: a field
\* that holds a value before the call holds one after it, the argument when
\* one was passed and the earlier value when it was not, whatever status the
\* call writes.
C40_SetNeverCleared ==
    [][(call'.op = "update_job" /\ call'.job_id \in Jobs) =>
          LET j == call'.job_id
          IN  /\ j \in DOMAIN store'
              /\ store[j].output_filename # None =>
                    /\ store'[j].output_filename # None
                    /\ store'[j].output_filename =
                          IF call'.output_filename # None
                          THEN call'.output_filename
                          ELSE store[j].output_filename
              /\ store[j].error # None =>
                    /\ store'[j].error # None
                    /\ store'[j].error =
                          IF call'.error # None THEN call'.error
                          ELSE store[j].error]_vars

\* C40 witness: an update_job call that passed a status and neither field
\* has left both fields, set by earlier calls, in place
C40_Witness ==
    /\ call.op = "update_job"
    /\ call.status = Some(PROCESSING)
    /\ call.output_filename = None
    /\ call.error = None
    /\ call.job_id \in Jobs
    /\ store[call.job_id].status = PROCESSING
    /\ store[call.job_id].output_filename # None
    /\ store[call.job_id].error # None

====
